---- MODULE Spec2Model ----
(***************************************************************************)
(* The enrollment session of IdentityShield's web client: the VideoChat    *)
(* component (frontend/src/components/VideoChat.jsx) and the               *)
(* useMediaStream hook (frontend/src/hooks/useMediaStream.js).             *)
(*                                                                         *)
(* React is modelled as follows.  An event handler (or the continuation of *)
(* an async handler after an await) runs to its next await as one step;    *)
(* the state updates it makes are committed and the component re-rendered  *)
(* at the end of that step.  A handler started by a user event reads the   *)
(* state of the last render; the continuation of an async handler keeps    *)
(* the values and callbacks of the render in which the handler was         *)
(* started (its closure).  State setters of an unmounted component do      *)
(* nothing; refs, timers, streams and recorders are plain objects and      *)
(* outlive the component.                                                  *)
(***************************************************************************)
EXTENDS Integers, Sequences, FiniteSets, TLC

\* ---- bounds of the model ----
MaxStarts == 2      \* clicks on "Start Conversation"
MaxUnits == 2       \* dataavailable events with data, per recorder
MaxTicks == 1       \* firings of the elapsed-time interval
ClockTicks == 61    \* the same, where the completion threshold is crossed
MaxSends == 1       \* accepted message submissions
MaxHolds == 1       \* accepted presses of the mic button
MaxCompletes == 1   \* clicks on "Complete Enrollment"
MaxRetries == 2     \* the same, where a failed completion is tried again
MaxPresses == 2     \* accepted presses, where one hold follows another

\* ---- program constants ----
CompletionThreshold == 60

NoSession == "null"
NewSession == "sess"
NoUser == "undefined"
NewUser == "user"

VARIABLES
    mounted,          \* the VideoChat component is mounted
    step,             \* 'topic' | 'permissions' | 'conversation'
    selectedTopic, customTopic, useCustomTopic,
    sessionId, userId, isStarting, isCompleting,
    messages, inputText, isTyping, shouldEnd,
    isSpeaking, audioEnabled, audioRef,
    elapsedTime, timerRef, chunksProcessed,
    isRecordingMic, isTranscribing,
    cap,              \* useMediaStream: its state, its refs, recorder and streams
    mic,              \* push-to-talk: its refs, recorders and streams
    timers,           \* scheduled elapsed-time intervals and auto-submit timeouts
    playing,          \* audio clips that are playing
    pend,             \* async handlers waiting at an await, with their closures
    obs               \* what the session has done: chunks produced, calls made

vars == <<mounted, step, selectedTopic, customTopic, useCustomTopic, sessionId, userId, isStarting, isCompleting,
          messages, inputText, isTyping, shouldEnd, isSpeaking, audioEnabled,
          audioRef, elapsedTime, timerRef, chunksProcessed, isRecordingMic,
          isTranscribing, cap, mic, timers, playing, pend, obs>>

\* the choice made on the topic screen
topicVars == <<selectedTopic, customTopic, useCustomTopic>>

\* state of the component that neither the conversation nor audio touches
flowVars == <<step, sessionId, userId, isStarting, isCompleting>>
convVars == <<messages, inputText, isTyping, shouldEnd>>
audioVars == <<isSpeaking, audioRef, playing>>
micVars == <<isRecordingMic, isTranscribing, mic>>
clockVars == <<elapsedTime, timerRef, timers>>

\* setX(v) of a component: ignored once it is unmounted
Set(m, old, new) == IF m THEN new ELSE old

\* ------------------------------------------------------------------------
\* useMediaStream
\* ------------------------------------------------------------------------
\* cap.stream            the stream state (0 is null), else the id of a stream
\* cap.liveCam           camera/mic streams whose tracks are active
\* cap.recorder          mediaRecorderRef: "null", or the state of its recorder
\* cap.stopQueued        stop() was called: the recorder's last dataavailable
\*                       and its stop event are queued
\* cap.chunksRef         the sub-units captured since the last flush
\* cap.chunkIntervalRef  the ref holds an interval id
\* cap.flushLive         the flush interval is scheduled
\* cap.flushSid          sessionId seen by the onChunkReady of the interval's
\*                       processAndSendChunk
\* cap.srSid             sessionId seen by the onChunkReady of the memoised
\*                       startRecording (deps [stream]) of the last render
\* cap.readers           FileReaders that have not fired onloadend yet

\* const processAndSendChunk = useCallback(async () => {...}, [onChunkReady])
ProcessAndSendChunk(c, sid) ==
    IF c.chunksRef = <<>> THEN c
    ELSE [c EXCEPT !.readers = Append(@, [units |-> c.chunksRef, sid |-> sid]),
                   !.chunksRef = <<>>]

\* const startRecording = useCallback(() => {...}, [stream]); `started` is
\* whether new MediaRecorder(...).start(1000) returns or throws
StartRecording(c, clStream, clSid, started, m) ==
    IF clStream = 0 THEN c
    ELSE IF started
    THEN [c EXCEPT !.recorder = "recording", !.stopQueued = FALSE,
                   !.chunksRef = <<>>,
                   !.isRecording = Set(m, @, TRUE),
                   !.chunkIntervalRef = TRUE, !.flushLive = TRUE,
                   !.flushSid = clSid]
    ELSE [c EXCEPT !.recorder = "inactive", !.chunksRef = <<>>,
                   !.error = Set(m, @, "record")]

\* StopRecording that hands a chunk over whether or not the buffer holds data
StopRecordingAlwaysFlushes(c, sid, m) ==
    LET c1 == [c EXCEPT !.flushLive = IF c.chunkIntervalRef THEN FALSE ELSE @,
                        !.chunkIntervalRef = FALSE]
        c2 == IF c1.recorder = "recording"
              THEN [c1 EXCEPT !.recorder = "inactive", !.stopQueued = TRUE]
              ELSE c1
        c3 == [c2 EXCEPT !.readers = Append(@, [units |-> c2.chunksRef,
                                                sid |-> sid]),
                         !.chunksRef = <<>>]
    IN  [c3 EXCEPT !.isRecording = Set(m, @, FALSE)]

\* const stopRecording = useCallback(async () => {...}, [processAndSendChunk])
StopRecording(c, sid, m) ==
    LET c1 == [c EXCEPT !.flushLive = IF c.chunkIntervalRef THEN FALSE ELSE @,
                        !.chunkIntervalRef = FALSE]
        c2 == IF c1.recorder = "recording"
              THEN [c1 EXCEPT !.recorder = "inactive", !.stopQueued = TRUE]
              ELSE c1
        c3 == IF c2.chunksRef # <<>> THEN ProcessAndSendChunk(c2, sid) ELSE c2
    IN  [c3 EXCEPT !.isRecording = Set(m, @, FALSE)]

\* const stopStream = useCallback(() => {...}, [stream, stopRecording])
StopStream(c, clStream, sid, m) ==
    LET c1 == StopRecording(c, sid, m)
        c2 == IF clStream # 0
              THEN [c1 EXCEPT !.liveCam = @ \ {clStream},
                              !.stream = Set(m, @, 0)]
              ELSE c1
    IN  [c2 EXCEPT !.permissionGranted = Set(m, @, FALSE)]

\* what a call of stopRecording does to the recorder, its buffer and its
\* interval, in the order of its statements (a statement that finds nothing
\* to do is left out)
StopRecordingSteps(c) ==
    (IF c.chunkIntervalRef THEN <<"clearFlushTimer">> ELSE <<>>)
    \o (IF c.recorder = "recording" THEN <<"stopRecorder">> ELSE <<>>)
    \o (IF c.chunksRef # <<>> THEN <<"flush">> ELSE <<>>)

\* the same for stopStream
StopStreamSteps(c, clStream) ==
    StopRecordingSteps(c)
    \o (IF clStream # 0 /\ clStream \in c.liveCam THEN <<"releaseTracks">>
        ELSE <<>>)

\* the cleanup of useEffect(..., [stream]) (lines 156-165): it runs with the
\* stream of the render that installed it, when stream changes and on unmount
EffectCleanup(c, effStream) ==
    [c EXCEPT !.flushLive = IF c.chunkIntervalRef THEN FALSE ELSE @,
              !.liveCam = IF effStream # 0 THEN @ \ {effStream} ELSE @]

\* the render after `stream` changed: the old effect is cleaned up and
\* startRecording is memoised anew, over this render's onChunkReady
RenderStream(c, effStream, sid, m) ==
    IF m /\ c.stream # effStream
    THEN [EffectCleanup(c, effStream) EXCEPT !.srSid = sid]
    ELSE c

\* ------------------------------------------------------------------------
\* assistant audio (VideoChat.jsx, playAudio / stopAudio)
\* ------------------------------------------------------------------------
Aud == [isSpeaking |-> isSpeaking, audioRef |-> audioRef, playing |-> playing]

SetAud(a) ==
    /\ isSpeaking' = a.isSpeaking
    /\ audioRef' = a.audioRef
    /\ playing' = a.playing

\* const stopAudio = () => {...}
StopAudio(a, m) ==
    [isSpeaking |-> Set(m, a.isSpeaking, FALSE),
     audioRef |-> 0,
     playing |-> IF a.audioRef # 0 THEN a.playing \ {a.audioRef} ELSE a.playing]

StopAudioSteps(a) == IF a.audioRef # 0 THEN <<"stopAudio">> ELSE <<>>

\* const playAudio = useCallback(async (audioBase64) => {...}, [audioEnabled]);
\* `enabled` is the audioEnabled of the render the caller took playAudio from,
\* `plays` is whether audio.play() resolves or rejects
PlayAudio(a, enabled, hasAudio, clip, plays, m) ==
    IF ~enabled \/ ~hasAudio THEN a
    ELSE [isSpeaking |-> Set(m, a.isSpeaking, plays),
          audioRef |-> clip,
          playing |-> IF plays THEN a.playing \cup {clip} ELSE a.playing]

\* ------------------------------------------------------------------------
\* push-to-talk (VideoChat.jsx, startMicRecording / stopMicRecording)
\* ------------------------------------------------------------------------
\* mic.micRecorderRef, mic.micStreamRef   the refs (0 is null), else an id
\* mic.audioChunksRef   the blobs pushed by the recorders' ondataavailable
\* mic.recording        recorders in state 'recording'
\* mic.stopping         recorders whose dataavailable and stop are queued
\* mic.live             push-to-talk streams whose tracks are active
\* mic.acquiring        startMicRecording calls waiting for getUserMedia
\* mic.pipe             clips being read (FileReader) or transcribed

\* MediaRecorder.stop(): nothing happens on an inactive recorder
RecorderStop(mc, r) ==
    IF r \in mc.recording
    THEN [mc EXCEPT !.recording = @ \ {r}, !.stopping = @ \cup {r}]
    ELSE mc

\* const stopMicRecording = () => {...}; isRec is isRecordingMic of the render
StopMicRecording(mc, isRec) ==
    IF mc.micRecorderRef # 0 /\ isRec THEN RecorderStop(mc, mc.micRecorderRef)
    ELSE mc

StopMicSteps(mc, isRec) ==
    IF mc.micRecorderRef # 0 /\ isRec /\ mc.micRecorderRef \in mc.recording
    THEN <<"stopMic">> ELSE <<>>

\* the cleanup of useEffect(..., []) at lines 233-242
MicCleanup(mc) ==
    LET m1 == IF mc.micRecorderRef # 0 THEN RecorderStop(mc, mc.micRecorderRef)
              ELSE mc
    IN  IF m1.micStreamRef # 0
        THEN [m1 EXCEPT !.live = @ \ {m1.micStreamRef}]
        ELSE m1

\* String.prototype.trim
RECURSIVE TrimStart(_)
TrimStart(t) == IF t # <<>> /\ Head(t) = " " THEN TrimStart(Tail(t)) ELSE t

RECURSIVE TrimEnd(_)
TrimEnd(t) ==
    IF t # <<>> /\ t[Len(t)] = " " THEN TrimEnd(SubSeq(t, 1, Len(t) - 1)) ELSE t

Trim(t) == TrimEnd(TrimStart(t))

\* ------------------------------------------------------------------------
\* the topic of the conversation (VideoChat.jsx, TOPICS / getTopicString)
\* ------------------------------------------------------------------------
NoTopic == "null"

\* the ids of TOPICS
Topics == {"general", "work", "hobbies", "travel", "food", "music", "ideas",
           "relationships"}

\* the label of the entry of TOPICS with this id, as a text
Label(id) ==
    CASE id = "general" -> <<"General Chat">>
      [] id = "work" -> <<"Work & Career">>
      [] id = "hobbies" -> <<"Hobbies & Games">>
      [] id = "travel" -> <<"Travel & Adventure">>
      [] id = "food" -> <<"Food & Cooking">>
      [] id = "music" -> <<"Music & Arts">>
      [] id = "ideas" -> <<"Ideas & Philosophy">>
      [] id = "relationships" -> <<"Life & Relationships">>

\* what the user types into the custom topic field
CustomTyped == {<<>>, <<" ">>, <<" ", "a", "i", " ">>}

\* getTopicString that returns the custom text as typed
GetTopicStringAsTyped(sel, custom, useCustom) ==
    IF useCustom /\ Trim(custom) # <<>> THEN custom
    ELSE IF sel # NoTopic
         THEN (IF sel \in Topics THEN Label(sel) ELSE <<"General Chat">>)
         ELSE <<"General Chat">>

\* const getTopicString = () => {...}
GetTopicString(sel, custom, useCustom) ==
    IF useCustom /\ Trim(custom) # <<>> THEN Trim(custom)
    ELSE IF sel # NoTopic
         THEN (IF sel \in Topics THEN Label(sel) ELSE <<"General Chat">>)
         ELSE <<"General Chat">>

\* ------------------------------------------------------------------------
\* initial state: the component has just been mounted (useState/useRef)
\* ------------------------------------------------------------------------
IdleStart == [pc |-> "idle", stream |-> 0, srSid |-> NoSession,
              audioEnabled |-> TRUE, topic |-> <<>>]

Init ==
    /\ mounted = TRUE
    /\ step = "topic"
    /\ selectedTopic = NoTopic
    /\ customTopic = <<>>
    /\ useCustomTopic = FALSE
    /\ sessionId = NoSession
    /\ userId = NoUser
    /\ isStarting = FALSE
    /\ isCompleting = FALSE
    /\ messages = <<>>
    /\ inputText = <<>>
    /\ isTyping = FALSE
    /\ shouldEnd = FALSE
    /\ isSpeaking = FALSE
    /\ audioEnabled = TRUE
    /\ audioRef = 0
    /\ elapsedTime = 0
    /\ timerRef = 0
    /\ chunksProcessed = 0
    /\ isRecordingMic = FALSE
    /\ isTranscribing = FALSE
    /\ cap = [stream |-> 0, permissionGranted |-> FALSE, error |-> "null",
              isRecording |-> FALSE, recorder |-> "null", stopQueued |-> FALSE,
              chunksRef |-> <<>>, chunkIntervalRef |-> FALSE,
              flushLive |-> FALSE, flushSid |-> NoSession, srSid |-> NoSession,
              readers |-> <<>>, liveCam |-> {}]
    /\ mic = [micRecorderRef |-> 0, micStreamRef |-> 0, audioChunksRef |-> <<>>,
              recording |-> {}, stopping |-> {}, live |-> {}, acquiring |-> 0,
              pipe |-> <<>>]
    /\ timers = [elapsed |-> {}, autoSubmit |-> 0]
    /\ playing = {}
    /\ pend = [start |-> IdleStart, sends |-> <<>>, completes |-> <<>>,
               uploads |-> <<>>]
    /\ obs = [starts |-> 0, enrollCalls |-> 0, enrollBody |-> <<>>,
              startAlerts |-> 0,
              captured |-> <<>>, chunks |-> <<>>, uploadFailures |-> 0,
              clips |-> 0,
              submits |-> 0, sends |-> 0, sendFailures |-> 0,
              holds |-> 0, earlyRelease |-> 0, micStreams |-> 0,
              transcribeCalls |-> 0,
              completes |-> 0, completeFailures |-> 0,
              hostComplete |-> <<>>, hostCancel |-> 0]

\* ------------------------------------------------------------------------
\* unmounting: the host replaces the view, and the cleanups of the three
\* effects run (useMediaStream.js 156-165, VideoChat.jsx 233-242, 388-395)
\* ------------------------------------------------------------------------
Unmount(c, mc, a, tm) ==
    /\ mounted' = FALSE
    /\ cap' = EffectCleanup(c, cap.stream)
    /\ mic' = MicCleanup(mc)
    /\ SetAud(StopAudio(a, FALSE))
    /\ timers' = [tm EXCEPT !.elapsed = IF timerRef # 0 THEN @ \ {timerRef} ELSE @]

\* ------------------------------------------------------------------------
\* topic selection and permission request
\* ------------------------------------------------------------------------
\* <button onClick={() => {setSelectedTopic(topic.id); setUseCustomTopic(false)}}>
SelectTopic(id) ==
    /\ mounted /\ step = "topic"
    /\ selectedTopic' = id
    /\ useCustomTopic' = FALSE
    /\ UNCHANGED <<mounted, customTopic, flowVars, convVars, audioVars,
                   audioEnabled, clockVars, chunksProcessed, micVars, cap,
                   pend, obs>>

\* <button onClick={() => setUseCustomTopic(!useCustomTopic)}>
ToggleCustomTopic ==
    /\ mounted /\ step = "topic"
    /\ useCustomTopic' = ~useCustomTopic
    /\ UNCHANGED <<mounted, selectedTopic, customTopic, flowVars, convVars,
                   audioVars, audioEnabled, clockVars, chunksProcessed,
                   micVars, cap, pend, obs>>

\* {useCustomTopic && <input value={customTopic} onChange={...}>}
TypeCustomTopic(t) ==
    /\ mounted /\ step = "topic" /\ useCustomTopic
    /\ customTopic # t
    /\ customTopic' = t
    /\ UNCHANGED <<mounted, selectedTopic, useCustomTopic, flowVars, convVars,
                   audioVars, audioEnabled, clockVars, chunksProcessed,
                   micVars, cap, pend, obs>>

\* handleTopicContinue behind a Continue button that is never disabled
HandleTopicContinueAlways ==
    /\ mounted /\ step = "topic"
    /\ selectedTopic' = IF selectedTopic = NoTopic /\ Trim(customTopic) = <<>>
                        THEN "general" ELSE selectedTopic
    /\ step' = "permissions"
    /\ UNCHANGED <<mounted, customTopic, useCustomTopic, sessionId, userId,
                   isStarting, isCompleting,
                   convVars, audioVars, audioEnabled, clockVars,
                   chunksProcessed, micVars, cap, pend, obs>>

\* const handleTopicContinue = () => {...}, behind
\* <button disabled={useCustomTopic && !customTopic.trim()}>
HandleTopicContinue ==
    /\ mounted /\ step = "topic"
    /\ ~(useCustomTopic /\ Trim(customTopic) = <<>>)
    /\ selectedTopic' = IF selectedTopic = NoTopic /\ Trim(customTopic) = <<>>
                        THEN "general" ELSE selectedTopic
    /\ step' = "permissions"
    /\ UNCHANGED <<mounted, customTopic, useCustomTopic, sessionId, userId, isStarting, isCompleting,
                   convVars, audioVars, audioEnabled, clockVars,
                   chunksProcessed, micVars, cap, pend, obs>>

\* <button onClick={onCancel}> of the topic step: the host leaves the view
TopicCancel ==
    /\ mounted /\ step = "topic"
    /\ Unmount(cap, mic, Aud, timers)
    /\ obs' = [obs EXCEPT !.hostCancel = @ + 1]
    /\ UNCHANGED <<topicVars,
                   flowVars, convVars, audioEnabled, elapsedTime, timerRef,
                   chunksProcessed, isRecordingMic, isTranscribing, pend>>

\* <button onClick={() => setStep('topic')}> of the permissions step
PermissionsBack ==
    /\ mounted /\ step = "permissions"
    /\ step' = "topic"
    /\ UNCHANGED <<topicVars,
                   mounted, sessionId, userId, isStarting, isCompleting,
                   convVars, audioVars, audioEnabled, clockVars,
                   chunksProcessed, micVars, cap, pend, obs>>

\* const handleStart = async () => {...}, up to `await requestPermissions()`,
\* itself up to `await navigator.mediaDevices.getUserMedia(...)`; topic is
\* what the getTopicString of this render returns when it is called after
\* the await
HandleStart ==
    /\ mounted /\ step = "permissions" /\ ~isStarting
    /\ obs.starts < MaxStarts
    /\ isStarting' = TRUE
    /\ cap' = [cap EXCEPT !.error = "null"]
    /\ pend' = [pend EXCEPT !.start =
                  [pc |-> "perm", stream |-> cap.stream, srSid |-> cap.srSid,
                   audioEnabled |-> audioEnabled,
                   topic |-> GetTopicString(selectedTopic, customTopic,
                                            useCustomTopic)]]
    /\ obs' = [obs EXCEPT !.starts = @ + 1]
    /\ UNCHANGED <<topicVars,
                   mounted, step, sessionId, userId, isCompleting, convVars,
                   audioVars, audioEnabled, clockVars, chunksProcessed, micVars>>

\* the body of the request of startEnrollment(topic)
StartEnrollmentBody(topic) ==
    [user_id |-> "null", email |-> "null", topic |-> topic]

\* getUserMedia resolves: requestPermissions returns true and handleStart
\* goes on to `await startEnrollment(topic)`
PermissionGranted ==
    /\ pend.start.pc = "perm"
    /\ LET n == obs.starts
           c1 == [cap EXCEPT !.liveCam = @ \cup {n},
                             !.stream = Set(mounted, @, n),
                             !.permissionGranted = Set(mounted, @, TRUE)]
       IN  cap' = RenderStream(c1, cap.stream, sessionId, mounted)
    /\ pend' = [pend EXCEPT !.start.pc = "enroll"]
    /\ obs' = [obs EXCEPT !.enrollCalls = @ + 1,
                          !.enrollBody = StartEnrollmentBody(pend.start.topic)]
    /\ UNCHANGED <<topicVars,
                   mounted, flowVars, convVars, audioVars, audioEnabled,
                   clockVars, chunksProcessed, micVars>>

\* PermissionDenied with one message for every rejection
PermissionDeniedOneReason(name) ==
    /\ pend.start.pc = "perm"
    /\ cap' = [cap EXCEPT
                 !.error = Set(mounted, @, "device"),
                 !.permissionGranted = Set(mounted, @, FALSE)]
    /\ isStarting' = Set(mounted, isStarting, FALSE)
    /\ pend' = [pend EXCEPT !.start = IdleStart]
    /\ UNCHANGED <<topicVars,
                   mounted, step, sessionId, userId, isCompleting, convVars,
                   audioVars, audioEnabled, clockVars, chunksProcessed,
                   micVars, obs>>

\* getUserMedia rejects: requestPermissions returns false, handleStart returns
PermissionDenied(name) ==
    /\ pend.start.pc = "perm"
    /\ cap' = [cap EXCEPT
                 !.error = Set(mounted, @, IF name = "NotAllowedError"
                                           THEN "denied" ELSE "device"),
                 !.permissionGranted = Set(mounted, @, FALSE)]
    /\ isStarting' = Set(mounted, isStarting, FALSE)
    /\ pend' = [pend EXCEPT !.start = IdleStart]
    /\ UNCHANGED <<topicVars,
                   mounted, step, sessionId, userId, isCompleting, convVars,
                   audioVars, audioEnabled, clockVars, chunksProcessed,
                   micVars, obs>>

Opening == [role |-> "assistant", content |-> "opening"]

\* startEnrollment resolves: the rest of the try block of handleStart
EnrollmentStarted(hasAudio, plays, started) ==
    /\ pend.start.pc = "enroll"
    /\ sessionId' = Set(mounted, sessionId, NewSession)
    /\ userId' = Set(mounted, userId, NewUser)
    /\ messages' = Set(mounted, messages, <<Opening>>)
    /\ SetAud(PlayAudio(Aud, pend.start.audioEnabled, hasAudio,
                        obs.clips + 1, plays, mounted))
    /\ cap' = StartRecording(cap, pend.start.stream, pend.start.srSid,
                             started, mounted)
    /\ timerRef' = obs.starts
    /\ timers' = [timers EXCEPT !.elapsed = @ \cup {obs.starts}]
    /\ step' = Set(mounted, step, "conversation")
    /\ isStarting' = Set(mounted, isStarting, FALSE)
    /\ pend' = [pend EXCEPT !.start = IdleStart]
    /\ obs' = [obs EXCEPT !.clips = IF pend.start.audioEnabled /\ hasAudio
                                    THEN @ + 1 ELSE @]
    /\ UNCHANGED <<topicVars,
                   mounted, isCompleting, inputText, isTyping, shouldEnd,
                   audioEnabled, elapsedTime, chunksProcessed, micVars>>

\* EnrollmentFailed without the finally block
EnrollmentFailedNoFinally ==
    /\ pend.start.pc = "enroll"
    /\ pend' = [pend EXCEPT !.start = IdleStart]
    /\ obs' = [obs EXCEPT !.startAlerts = @ + 1]
    /\ UNCHANGED <<topicVars,
                   mounted, step, sessionId, userId, isStarting, isCompleting,
                   convVars, audioVars, audioEnabled, clockVars,
                   chunksProcessed, micVars, cap>>

\* startEnrollment rejects: catch (console.error, alert) and finally of
\* handleStart
EnrollmentFailed ==
    /\ pend.start.pc = "enroll"
    /\ isStarting' = Set(mounted, isStarting, FALSE)
    /\ pend' = [pend EXCEPT !.start = IdleStart]
    /\ obs' = [obs EXCEPT !.startAlerts = @ + 1]
    /\ UNCHANGED <<topicVars,
                   mounted, step, sessionId, userId, isCompleting, convVars,
                   audioVars, audioEnabled, clockVars, chunksProcessed,
                   micVars, cap>>

\* OnDataAvailable over a buffer that a flush reads in place: while a chunk
\* is being encoded, the data goes to the array that was handed over
OnDataAvailableIntoTaken(c, size) ==
    IF size > 0
    THEN IF c.readers # <<>>
         THEN [c EXCEPT !.readers[Len(c.readers)].units =
                          Append(@, Len(obs.captured) + 1)]
         ELSE [c EXCEPT !.chunksRef = Append(@, Len(obs.captured) + 1)]
    ELSE c

\* ------------------------------------------------------------------------
\* capture: the recorder's events, the flush interval, the FileReaders
\* ------------------------------------------------------------------------
\* mediaRecorder.ondataavailable = (event) => {...}: the buffer and the
\* record of what was captured, after an event whose data has `size` bytes
OnDataAvailable(c, size) ==
    IF size > 0 THEN [c EXCEPT !.chunksRef = Append(@, Len(obs.captured) + 1)]
    ELSE c

Captured(size) ==
    IF size > 0 THEN [obs EXCEPT !.captured = Append(@, Len(@) + 1)] ELSE obs

\* the dataavailable event fired every second while recording
DataAvailable(size) ==
    /\ cap.recorder = "recording"
    /\ Len(obs.captured) < MaxUnits
    /\ cap' = OnDataAvailable(cap, size)
    /\ obs' = Captured(size)
    /\ UNCHANGED <<topicVars,
                   mounted, flowVars, convVars, audioVars, audioEnabled,
                   clockVars, chunksProcessed, micVars, pend>>

\* the task queued by MediaRecorder.stop(): a last dataavailable (with the
\* data gathered since the previous one, possibly none), then the stop event
RecorderStopped(size) ==
    /\ cap.stopQueued
    /\ cap' = [OnDataAvailable(cap, size) EXCEPT !.stopQueued = FALSE]
    /\ obs' = Captured(size)
    /\ UNCHANGED <<topicVars,
                   mounted, flowVars, convVars, audioVars, audioEnabled,
                   clockVars, chunksProcessed, micVars, pend>>

\* the callback of setInterval(..., CHUNK_DURATION_MS) in startRecording
FlushTick ==
    /\ cap.flushLive
    /\ Len(cap.chunksRef) > 0
    /\ cap' = ProcessAndSendChunk(cap, cap.flushSid)
    /\ UNCHANGED <<topicVars,
                   mounted, flowVars, convVars, audioVars, audioEnabled,
                   clockVars, chunksProcessed, micVars, pend, obs>>

\* reader.onloadend of the i-th pending FileReader: onChunkReady(base64),
\* which is handleChunkReady of the render the flush was taken from
ReaderLoadEnd(i) ==
    /\ i \in DOMAIN cap.readers
    /\ LET r == cap.readers[i]
       IN  /\ cap' = [cap EXCEPT !.readers =
                        SubSeq(@, 1, i - 1) \o SubSeq(@, i + 1, Len(@))]
           /\ obs' = [obs EXCEPT !.chunks = Append(@, r.units)]
           /\ pend' = IF r.sid = NoSession THEN pend
                      ELSE [pend EXCEPT !.uploads = Append(@, r.sid)]
    /\ UNCHANGED <<topicVars,
                   mounted, flowVars, convVars, audioVars, audioEnabled,
                   clockVars, chunksProcessed, micVars>>

\* UploadSettled with a counter that starts again after a failed upload
UploadSettledResets(outcome) ==
    /\ pend.uploads # <<>>
    /\ pend' = [pend EXCEPT !.uploads = Tail(@)]
    /\ chunksProcessed' = IF outcome = "success"
                          THEN Set(mounted, chunksProcessed, chunksProcessed + 1)
                          ELSE Set(mounted, chunksProcessed, 0)
    /\ obs' = [obs EXCEPT !.uploadFailures = IF outcome = "success" THEN @
                                             ELSE @ + 1]
    /\ UNCHANGED <<topicVars, mounted, flowVars, convVars, audioVars,
                   audioEnabled, clockVars, micVars, cap>>

\* UploadSettled with a counter that counts every settled upload
UploadSettledCountsAll(outcome) ==
    /\ pend.uploads # <<>>
    /\ pend' = [pend EXCEPT !.uploads = Tail(@)]
    /\ chunksProcessed' = Set(mounted, chunksProcessed, chunksProcessed + 1)
    /\ obs' = [obs EXCEPT !.uploadFailures = IF outcome = "success" THEN @
                                             ELSE @ + 1]
    /\ UNCHANGED <<topicVars,
                   mounted, flowVars, convVars, audioVars, audioEnabled,
                   clockVars, micVars, cap>>

\* uploadChunk settles: the rest of handleChunkReady
UploadSettled(outcome) ==
    /\ pend.uploads # <<>>
    /\ pend' = [pend EXCEPT !.uploads = Tail(@)]
    /\ chunksProcessed' = IF outcome = "success"
                          THEN Set(mounted, chunksProcessed, chunksProcessed + 1)
                          ELSE chunksProcessed
    /\ obs' = [obs EXCEPT !.uploadFailures = IF outcome = "success" THEN @
                                             ELSE @ + 1]
    /\ UNCHANGED <<topicVars,
                   mounted, flowVars, convVars, audioVars, audioEnabled,
                   clockVars, micVars, cap>>

\* Tick of an interval that is never cleared
TickWhileStopped(bound) ==
    /\ timerRef # 0
    /\ mounted
    /\ elapsedTime < bound
    /\ elapsedTime' = elapsedTime + 1
    /\ UNCHANGED <<topicVars,
                   mounted, flowVars, convVars, audioVars, audioEnabled,
                   timerRef, timers, chunksProcessed, micVars, cap, pend, obs>>

\* the callback of the setInterval(..., 1000) of handleStart
Tick(bound) ==
    /\ timers.elapsed # {}
    /\ mounted
    /\ elapsedTime < bound
    /\ elapsedTime' = elapsedTime + 1
    /\ UNCHANGED <<topicVars,
                   mounted, flowVars, convVars, audioVars, audioEnabled,
                   timerRef, timers, chunksProcessed, micVars, cap, pend, obs>>

\* ------------------------------------------------------------------------
\* conversation (VideoChat.jsx, handleSendMessage)
\* ------------------------------------------------------------------------
\* texts are sequences of characters; the user types one of Typed, the
\* transcription service returns one of Heard
Typed == {<<" ">>, <<" ", "h", "i">>}
Heard == {<<"y", "o">>}
\* the same, with a transcription that is nothing but a blank
HeardOrBlank == Heard \cup {<<" ">>}

\* the disabled attribute shared by the text input and the mic button,
\* apart from isRecordingMic
Busy == isTyping \/ isCompleting \/ isSpeaking \/ isTranscribing

\* <input ... onChange={(e) => setInputText(e.target.value)} disabled={...}>
TypeText(t) ==
    /\ mounted /\ step = "conversation"
    /\ ~(Busy \/ isRecordingMic)
    /\ inputText # t
    /\ inputText' = t
    /\ UNCHANGED <<topicVars,
                   mounted, flowVars, messages, isTyping, shouldEnd, audioVars,
                   audioEnabled, clockVars, chunksProcessed, micVars, cap,
                   pend, obs>>

\* SendAccepted without the test of the text
SendAcceptedBlank == sessionId # NoSession /\ ~isTyping

\* SendAccepted without the isTyping test
SendAcceptedWhileTyping == Trim(inputText) # <<>> /\ sessionId # NoSession

\* `if (!userMessage || !sessionId || isTyping) return;`
SendAccepted == Trim(inputText) # <<>> /\ sessionId # NoSession /\ ~isTyping

\* HandleSendMessage without its stopAudio()
HandleSendMessageNoStop ==
    IF SendAccepted
    THEN /\ inputText' = <<>>
         /\ UNCHANGED audioVars
         /\ messages' = Append(messages, [role |-> "user",
                                          content |-> Trim(inputText)])
         /\ isTyping' = TRUE
         /\ pend' = [pend EXCEPT !.sends =
                       Append(@, [sid |-> sessionId, text |-> Trim(inputText),
                                  elapsed |-> elapsedTime,
                                  audioEnabled |-> audioEnabled])]
         /\ obs' = [obs EXCEPT !.submits = @ + 1, !.sends = @ + 1]
    ELSE /\ obs' = [obs EXCEPT !.submits = @ + 1]
         /\ UNCHANGED <<inputText, audioVars, messages, isTyping, pend>>

\* const handleSendMessage = async (e) => {...}, up to `await sendMessage(...)`
HandleSendMessage ==
    IF SendAccepted
    THEN /\ inputText' = <<>>
         /\ SetAud(StopAudio(Aud, TRUE))
         /\ messages' = Append(messages, [role |-> "user",
                                          content |-> Trim(inputText)])
         /\ isTyping' = TRUE
         /\ pend' = [pend EXCEPT !.sends =
                       Append(@, [sid |-> sessionId, text |-> Trim(inputText),
                                  elapsed |-> elapsedTime,
                                  audioEnabled |-> audioEnabled])]
         /\ obs' = [obs EXCEPT !.submits = @ + 1, !.sends = @ + 1]
    ELSE /\ obs' = [obs EXCEPT !.submits = @ + 1]
         /\ UNCHANGED <<inputText, audioVars, messages, isTyping, pend>>

\* the user submits the form: <button type="submit" disabled={...}>
SubmitForm ==
    /\ mounted /\ step = "conversation"
    /\ Trim(inputText) # <<>> /\ ~(Busy \/ isRecordingMic)
    /\ obs.sends < MaxSends
    /\ HandleSendMessage
    /\ UNCHANGED <<topicVars,
                   mounted, flowVars, shouldEnd, audioEnabled, clockVars,
                   chunksProcessed, micVars, cap>>

\* the setTimeout(..., 100) of the transcription result fires:
\* document.getElementById('chat-form')?.requestSubmit()
AutoSubmit ==
    /\ timers.autoSubmit > 0
    /\ timers' = [timers EXCEPT !.autoSubmit = @ - 1]
    /\ IF mounted /\ step = "conversation"
       THEN HandleSendMessage
       ELSE UNCHANGED <<inputText, audioVars, messages, isTyping, pend, obs>>
    /\ UNCHANGED <<topicVars,
                   mounted, flowVars, shouldEnd, audioEnabled, elapsedTime,
                   timerRef, chunksProcessed, micVars, cap>>

Reply == [role |-> "assistant", content |-> "reply"]
Fallback == [role |-> "assistant", content |-> "fallback"]

\* SendSucceeded without the finally block
SendSucceededNoFinally(hasAudio, plays, end) ==
    /\ pend.sends # <<>>
    /\ messages' = Set(mounted, messages, Append(messages, Reply))
    /\ SetAud(PlayAudio(Aud, Head(pend.sends).audioEnabled, hasAudio,
                        obs.clips + 1, plays, mounted))
    /\ shouldEnd' = IF end THEN Set(mounted, shouldEnd, TRUE) ELSE shouldEnd
    /\ pend' = [pend EXCEPT !.sends = Tail(@)]
    /\ obs' = [obs EXCEPT !.clips = IF Head(pend.sends).audioEnabled /\ hasAudio
                                    THEN @ + 1 ELSE @]
    /\ UNCHANGED <<topicVars,
                   mounted, flowVars, inputText, isTyping, audioEnabled,
                   clockVars, chunksProcessed, micVars, cap>>

\* sendMessage resolves: the rest of the try block, then finally
SendSucceeded(hasAudio, plays, end) ==
    /\ pend.sends # <<>>
    /\ messages' = Set(mounted, messages, Append(messages, Reply))
    /\ SetAud(PlayAudio(Aud, Head(pend.sends).audioEnabled, hasAudio,
                        obs.clips + 1, plays, mounted))
    /\ shouldEnd' = IF end THEN Set(mounted, shouldEnd, TRUE) ELSE shouldEnd
    /\ isTyping' = Set(mounted, isTyping, FALSE)
    /\ pend' = [pend EXCEPT !.sends = Tail(@)]
    /\ obs' = [obs EXCEPT !.clips = IF Head(pend.sends).audioEnabled /\ hasAudio
                                    THEN @ + 1 ELSE @]
    /\ UNCHANGED <<topicVars,
                   mounted, flowVars, inputText, audioEnabled, clockVars,
                   chunksProcessed, micVars, cap>>

\* SendFailed with a catch that puts the fallback turn in place of the
\* user's turn
SendFailedRewrites ==
    /\ pend.sends # <<>>
    /\ messages' = Set(mounted, messages,
                       Append(SubSeq(messages, 1, Len(messages) - 1), Fallback))
    /\ isTyping' = Set(mounted, isTyping, FALSE)
    /\ pend' = [pend EXCEPT !.sends = Tail(@)]
    /\ obs' = [obs EXCEPT !.sendFailures = @ + 1]
    /\ UNCHANGED <<topicVars, mounted, flowVars, inputText, shouldEnd,
                   audioVars, audioEnabled, clockVars, chunksProcessed,
                   micVars, cap>>

\* SendFailed with a catch that ends the conversation instead of going on
SendFailedEnds ==
    /\ pend.sends # <<>>
    /\ messages' = Set(mounted, messages, Append(messages, Fallback))
    /\ shouldEnd' = Set(mounted, shouldEnd, TRUE)
    /\ isTyping' = Set(mounted, isTyping, FALSE)
    /\ pend' = [pend EXCEPT !.sends = Tail(@)]
    /\ obs' = [obs EXCEPT !.sendFailures = @ + 1]
    /\ UNCHANGED <<topicVars, mounted, flowVars, inputText, audioVars,
                   audioEnabled, clockVars, chunksProcessed, micVars, cap>>

\* SendFailed with a catch that appends no turn
SendFailedSilent ==
    /\ pend.sends # <<>>
    /\ isTyping' = Set(mounted, isTyping, FALSE)
    /\ pend' = [pend EXCEPT !.sends = Tail(@)]
    /\ obs' = [obs EXCEPT !.sendFailures = @ + 1]
    /\ UNCHANGED <<topicVars, mounted, flowVars, messages, inputText,
                   shouldEnd, audioVars, audioEnabled, clockVars,
                   chunksProcessed, micVars, cap>>

\* sendMessage rejects: catch, then finally
SendFailed ==
    /\ pend.sends # <<>>
    /\ messages' = Set(mounted, messages, Append(messages, Fallback))
    /\ isTyping' = Set(mounted, isTyping, FALSE)
    /\ pend' = [pend EXCEPT !.sends = Tail(@)]
    /\ obs' = [obs EXCEPT !.sendFailures = @ + 1]
    /\ UNCHANGED <<topicVars,
                   mounted, flowVars, inputText, shouldEnd, audioVars,
                   audioEnabled, clockVars, chunksProcessed, micVars, cap>>

\* audio.onended / audio.onerror of a clip that is playing
AudioEnded(clip) ==
    /\ clip \in playing
    /\ playing' = playing \ {clip}
    /\ isSpeaking' = Set(mounted, isSpeaking, FALSE)
    /\ UNCHANGED <<topicVars,
                   mounted, flowVars, convVars, audioRef, audioEnabled,
                   clockVars, chunksProcessed, micVars, cap, pend, obs>>

\* the audio toggle button (lines 697-719)
ToggleAudio ==
    /\ mounted /\ step = "conversation"
    /\ SetAud(IF audioEnabled THEN StopAudio(Aud, TRUE) ELSE Aud)
    /\ audioEnabled' = ~audioEnabled
    /\ UNCHANGED <<topicVars,
                   mounted, flowVars, convVars, clockVars, chunksProcessed,
                   micVars, cap, pend, obs>>

\* ------------------------------------------------------------------------
\* push-to-talk events
\* ------------------------------------------------------------------------
\* const startMicRecording = async () => {...}, up to `await getUserMedia`;
\* the button is disabled={isTyping || isCompleting || isSpeaking ||
\* isTranscribing}, the function returns at once while isRecordingMic
StartMicRecordingWithin(bound) ==
    /\ mounted /\ step = "conversation"
    /\ ~Busy
    /\ ~(isRecordingMic \/ isSpeaking \/ isTyping \/ isTranscribing)
    /\ obs.holds < bound
    /\ SetAud(StopAudio(Aud, TRUE))
    /\ mic' = [mic EXCEPT !.acquiring = @ + 1]
    /\ obs' = [obs EXCEPT !.holds = @ + 1]
    /\ UNCHANGED <<topicVars,
                   mounted, flowVars, convVars, audioEnabled, clockVars,
                   chunksProcessed, isRecordingMic, isTranscribing, cap, pend>>

StartMicRecording == StartMicRecordingWithin(MaxHolds)

\* getUserMedia({audio: true}) resolves: the rest of the try block
MicAcquired ==
    /\ mic.acquiring > 0
    /\ LET n == obs.micStreams + 1
       IN  mic' = [mic EXCEPT !.acquiring = @ - 1,
                              !.micStreamRef = n, !.live = @ \cup {n},
                              !.audioChunksRef = <<>>,
                              !.micRecorderRef = n, !.recording = @ \cup {n}]
    /\ isRecordingMic' = Set(mounted, isRecordingMic, TRUE)
    /\ obs' = [obs EXCEPT !.micStreams = @ + 1]
    /\ UNCHANGED <<topicVars,
                   mounted, flowVars, convVars, audioVars, audioEnabled,
                   clockVars, chunksProcessed, isTranscribing, cap, pend>>

\* getUserMedia({audio: true}) rejects: the catch of startMicRecording
MicDenied ==
    /\ mic.acquiring > 0
    /\ mic' = [mic EXCEPT !.acquiring = @ - 1]
    /\ UNCHANGED <<topicVars,
                   mounted, flowVars, convVars, audioVars, audioEnabled,
                   clockVars, chunksProcessed, isRecordingMic, isTranscribing,
                   cap, pend, obs>>

\* onMouseUp / onMouseLeave / onTouchEnd while startMicRecording waits for
\* getUserMedia: stopMicRecording finds its condition false and does nothing;
\* obs.earlyRelease is the hold that was let go in this way
ReleaseMicEarly ==
    /\ mounted /\ step = "conversation"
    /\ mic.acquiring > 0
    /\ ~(mic.micRecorderRef # 0 /\ isRecordingMic)
    /\ obs.earlyRelease # obs.holds
    /\ obs' = [obs EXCEPT !.earlyRelease = obs.holds]
    /\ UNCHANGED <<topicVars,
                   mounted, flowVars, convVars, audioVars, audioEnabled,
                   clockVars, chunksProcessed, micVars, cap, pend>>

\* onMouseUp / onMouseLeave / onTouchEnd: stopMicRecording, when its
\* condition holds (otherwise it does nothing)
ReleaseMic ==
    /\ mounted /\ step = "conversation"
    /\ mic.micRecorderRef # 0 /\ isRecordingMic
    /\ mic' = StopMicRecording(mic, isRecordingMic)
    /\ isRecordingMic' = FALSE
    /\ UNCHANGED <<topicVars,
                   mounted, flowVars, convVars, audioVars, audioEnabled,
                   clockVars, chunksProcessed, isTranscribing, cap, pend, obs>>

\* the task queued by stop() on push-to-talk recorder r: dataavailable (the
\* whole clip, as start() was given no timeslice), then recorder.onstop
MicRecorderStopped(r, size) ==
    /\ r \in mic.stopping
    /\ LET blobs == IF size > 0 THEN Append(mic.audioChunksRef, r)
                    ELSE mic.audioChunksRef
           m1 == [mic EXCEPT !.stopping = @ \ {r}, !.audioChunksRef = blobs]
           m2 == IF m1.micStreamRef # 0
                 THEN [m1 EXCEPT !.live = @ \ {m1.micStreamRef},
                                 !.micStreamRef = 0]
                 ELSE m1
       IN  IF Len(blobs) > 0
           THEN /\ isTranscribing' = Set(mounted, isTranscribing, TRUE)
                /\ mic' = [m2 EXCEPT !.pipe =
                             Append(@, [stage |-> "reading", clip |-> blobs])]
           ELSE /\ isTranscribing' = isTranscribing
                /\ mic' = m2
    /\ UNCHANGED <<topicVars,
                   mounted, flowVars, convVars, audioVars, audioEnabled,
                   clockVars, chunksProcessed, isRecordingMic, cap, pend, obs>>

\* reader.onloadend of the clip's FileReader, up to `await transcribeAudio`
MicReaderLoadEnd(i) ==
    /\ i \in DOMAIN mic.pipe
    /\ mic.pipe[i].stage = "reading"
    /\ mic' = [mic EXCEPT !.pipe[i].stage = "transcribing"]
    /\ obs' = [obs EXCEPT !.transcribeCalls = @ + 1]
    /\ UNCHANGED <<topicVars,
                   mounted, flowVars, convVars, audioVars, audioEnabled,
                   clockVars, chunksProcessed, isRecordingMic, isTranscribing,
                   cap, pend>>

\* TranscribeSettled with setIsTranscribing(false) in the try block only
TranscribeSettledNoFinally(i, threw, text) ==
    /\ i \in DOMAIN mic.pipe
    /\ mic.pipe[i].stage = "transcribing"
    /\ mic' = [mic EXCEPT !.pipe = SubSeq(@, 1, i - 1) \o SubSeq(@, i + 1, Len(@))]
    /\ IF ~threw /\ text # <<>>
       THEN /\ inputText' = Set(mounted, inputText, text)
            /\ timers' = [timers EXCEPT !.autoSubmit = @ + 1]
            /\ isTranscribing' = Set(mounted, isTranscribing, FALSE)
       ELSE UNCHANGED <<inputText, timers, isTranscribing>>
    /\ UNCHANGED <<topicVars,
                   mounted, flowVars, messages, isTyping, shouldEnd, audioVars,
                   audioEnabled, elapsedTime, timerRef, chunksProcessed,
                   isRecordingMic, cap, pend, obs>>

\* transcribeAudio settles: the try / catch / finally of reader.onloadend;
\* text is <<>> when the result has no success or no text
TranscribeSettled(i, threw, text) ==
    /\ i \in DOMAIN mic.pipe
    /\ mic.pipe[i].stage = "transcribing"
    /\ mic' = [mic EXCEPT !.pipe = SubSeq(@, 1, i - 1) \o SubSeq(@, i + 1, Len(@))]
    /\ IF ~threw /\ text # <<>>
       THEN /\ inputText' = Set(mounted, inputText, text)
            /\ timers' = [timers EXCEPT !.autoSubmit = @ + 1]
       ELSE UNCHANGED <<inputText, timers>>
    /\ isTranscribing' = Set(mounted, isTranscribing, FALSE)
    /\ UNCHANGED <<topicVars,
                   mounted, flowVars, messages, isTyping, shouldEnd, audioVars,
                   audioEnabled, elapsedTime, timerRef, chunksProcessed,
                   isRecordingMic, cap, pend, obs>>

\* ------------------------------------------------------------------------
\* completion and cancel
\* ------------------------------------------------------------------------
\* CompleteButton rendered from the start of the conversation
CompleteButtonUnlocked ==
    /\ mounted /\ step = "conversation"
    /\ ~isCompleting

\* CompleteButton with > in place of >=
CompleteButtonLate ==
    /\ mounted /\ step = "conversation"
    /\ (shouldEnd \/ elapsedTime > CompletionThreshold)
    /\ ~isCompleting

\* {(shouldEnd || elapsedTime >= 60) && <button onClick={handleComplete}
\*   disabled={isCompleting}>}
CompleteButton ==
    /\ mounted /\ step = "conversation"
    /\ (shouldEnd \/ elapsedTime >= CompletionThreshold)
    /\ ~isCompleting

\* clearInterval(timerRef.current), when the ref is set
ClearTimer(tm) == [tm EXCEPT !.elapsed = IF timerRef # 0 THEN @ \ {timerRef} ELSE @]

ClearTimerSteps(tm) ==
    IF timerRef # 0 /\ timerRef \in tm.elapsed THEN <<"clearElapsedTimer">>
    ELSE <<>>

\* the statements of handleComplete up to its await that find something to
\* do in the current state, in their order
HandleCompleteSteps ==
    StopRecordingSteps(cap)
    \o StopAudioSteps(Aud)
    \o StopMicSteps(mic, isRecordingMic)
    \o ClearTimerSteps(timers)
    \o <<"completeEnrollment">>

\* the same for handleCancel
HandleCancelSteps ==
    StopRecordingSteps(cap)
    \o StopStreamSteps(StopRecording(cap, sessionId, TRUE), cap.stream)
    \o StopAudioSteps(Aud)
    \o StopMicSteps(mic, isRecordingMic)
    \o ClearTimerSteps(timers)
    \o <<"onCancel">>

\* HandleComplete without the clearInterval of the elapsed timer
HandleCompleteNoFreeze ==
    /\ CompleteButton
    /\ obs.completes < MaxCompletes
    /\ isCompleting' = TRUE
    /\ cap' = StopRecording(cap, sessionId, TRUE)
    /\ SetAud(StopAudio(Aud, TRUE))
    /\ mic' = StopMicRecording(mic, isRecordingMic)
    /\ isRecordingMic' = (isRecordingMic /\ mic.micRecorderRef = 0)
    /\ timers' = timers
    /\ pend' = [pend EXCEPT !.completes =
                  Append(@, [sid |-> sessionId, stream |-> cap.stream,
                             userId |-> userId])]
    /\ obs' = [obs EXCEPT !.completes = @ + 1]
    /\ UNCHANGED <<topicVars,
                   mounted, step, sessionId, userId, isStarting, convVars,
                   audioEnabled, elapsedTime, timerRef, chunksProcessed,
                   isTranscribing>>

\* const handleComplete = async () => {...}, up to `await completeEnrollment`
HandleCompleteWithin(bound) ==
    /\ CompleteButton
    /\ obs.completes < bound
    /\ isCompleting' = TRUE
    /\ cap' = StopRecording(cap, sessionId, TRUE)
    /\ SetAud(StopAudio(Aud, TRUE))
    /\ mic' = StopMicRecording(mic, isRecordingMic)
    /\ isRecordingMic' = (isRecordingMic /\ mic.micRecorderRef = 0)
    /\ timers' = ClearTimer(timers)
    /\ pend' = [pend EXCEPT !.completes =
                  Append(@, [sid |-> sessionId, stream |-> cap.stream,
                             userId |-> userId])]
    /\ obs' = [obs EXCEPT !.completes = @ + 1]
    /\ UNCHANGED <<topicVars,
                   mounted, step, sessionId, userId, isStarting, convVars,
                   audioEnabled, elapsedTime, timerRef, chunksProcessed,
                   isTranscribing>>

HandleComplete == HandleCompleteWithin(MaxCompletes)

\* completeEnrollment resolves: stopStream(); onComplete(userId)
CompleteSucceeded ==
    /\ pend.completes # <<>>
    /\ LET cl == Head(pend.completes)
       IN  /\ cap' = RenderStream(StopStream(cap, cl.stream, cl.sid, mounted),
                                  cap.stream, sessionId, mounted)
           /\ obs' = [obs EXCEPT !.hostComplete = Append(@, cl.userId)]
    /\ pend' = [pend EXCEPT !.completes = Tail(@)]
    /\ UNCHANGED <<topicVars,
                   mounted, flowVars, convVars, audioVars, audioEnabled,
                   clockVars, chunksProcessed, micVars>>

\* CompleteFailed with a catch that hands the user over all the same
CompleteFailedHandsOff ==
    /\ pend.completes # <<>>
    /\ isCompleting' = Set(mounted, isCompleting, FALSE)
    /\ pend' = [pend EXCEPT !.completes = Tail(@)]
    /\ obs' = [obs EXCEPT !.completeFailures = @ + 1,
                          !.hostComplete = Append(@, Head(pend.completes).userId)]
    /\ UNCHANGED <<topicVars,
                   mounted, step, sessionId, userId, isStarting, convVars,
                   audioVars, audioEnabled, clockVars, chunksProcessed,
                   micVars, cap>>

\* CompleteFailed with a catch that takes the conversation up again as if
\* the service had not ended it
CompleteFailedResets ==
    /\ pend.completes # <<>>
    /\ isCompleting' = Set(mounted, isCompleting, FALSE)
    /\ shouldEnd' = Set(mounted, shouldEnd, FALSE)
    /\ pend' = [pend EXCEPT !.completes = Tail(@)]
    /\ obs' = [obs EXCEPT !.completeFailures = @ + 1]
    /\ UNCHANGED <<topicVars, mounted, step, sessionId, userId, isStarting,
                   messages, inputText, isTyping, audioVars, audioEnabled,
                   clockVars, chunksProcessed, micVars, cap>>

\* completeEnrollment rejects: the catch of handleComplete
CompleteFailed ==
    /\ pend.completes # <<>>
    /\ isCompleting' = Set(mounted, isCompleting, FALSE)
    /\ pend' = [pend EXCEPT !.completes = Tail(@)]
    /\ obs' = [obs EXCEPT !.completeFailures = @ + 1]
    /\ UNCHANGED <<topicVars,
                   mounted, step, sessionId, userId, isStarting, convVars,
                   audioVars, audioEnabled, clockVars, chunksProcessed,
                   micVars, cap>>

\* App.jsx, handleEnrollmentComplete: after onComplete the host loads the
\* profile and shows the dashboard, which unmounts VideoChat
HostShowsDashboard ==
    /\ mounted /\ obs.hostComplete # <<>>
    /\ Unmount(cap, mic, Aud, timers)
    /\ UNCHANGED <<topicVars,
                   flowVars, convVars, audioEnabled, elapsedTime, timerRef,
                   chunksProcessed, isRecordingMic, isTranscribing, pend, obs>>

\* HandleCancel with a finalize call before onCancel()
HandleCancelFinalizes ==
    /\ mounted /\ step = "conversation"
    /\ Unmount(StopStream(StopRecording(cap, sessionId, TRUE),
                          cap.stream, sessionId, TRUE),
               StopMicRecording(mic, isRecordingMic),
               StopAudio(Aud, TRUE),
               ClearTimer(timers))
    /\ isRecordingMic' = (isRecordingMic /\ mic.micRecorderRef = 0)
    /\ obs' = [obs EXCEPT !.hostCancel = @ + 1, !.completes = @ + 1]
    /\ pend' = [pend EXCEPT !.completes =
                  Append(@, [sid |-> sessionId, stream |-> cap.stream,
                             userId |-> userId])]
    /\ UNCHANGED <<topicVars,
                   flowVars, convVars, audioEnabled, elapsedTime, timerRef,
                   chunksProcessed, isTranscribing>>

\* const handleCancel = () => {...}; onCancel() makes the host leave the view
HandleCancel ==
    /\ mounted /\ step = "conversation"
    /\ Unmount(StopStream(StopRecording(cap, sessionId, TRUE),
                          cap.stream, sessionId, TRUE),
               StopMicRecording(mic, isRecordingMic),
               StopAudio(Aud, TRUE),
               ClearTimer(timers))
    /\ isRecordingMic' = (isRecordingMic /\ mic.micRecorderRef = 0)
    /\ obs' = [obs EXCEPT !.hostCancel = @ + 1]
    /\ UNCHANGED <<topicVars,
                   flowVars, convVars, audioEnabled, elapsedTime, timerRef,
                   chunksProcessed, isTranscribing, pend>>

\* ------------------------------------------------------------------------
\* the session
\* ------------------------------------------------------------------------
Next ==
    \/ \E id \in Topics : SelectTopic(id)
    \/ ToggleCustomTopic
    \/ \E t \in CustomTyped : TypeCustomTopic(t)
    \/ HandleTopicContinue
    \/ TopicCancel
    \/ PermissionsBack
    \/ HandleStart
    \/ PermissionGranted
    \/ \E name \in {"NotAllowedError", "NotFoundError"} : PermissionDenied(name)
    \/ \E hasAudio, plays, started \in BOOLEAN :
          EnrollmentStarted(hasAudio, plays, started)
    \/ EnrollmentFailed
    \/ \E size \in {0, 1} : DataAvailable(size)
    \/ \E size \in {0, 1} : RecorderStopped(size)
    \/ FlushTick
    \/ \E i \in 1..MaxUnits : ReaderLoadEnd(i)
    \/ \E outcome \in {"success", "refused", "throws"} : UploadSettled(outcome)
    \/ Tick(MaxTicks)
    \/ \E t \in Typed : TypeText(t)
    \/ SubmitForm
    \/ AutoSubmit
    \/ \E hasAudio, plays, end \in BOOLEAN : SendSucceeded(hasAudio, plays, end)
    \/ SendFailed
    \/ \E clip \in playing : AudioEnded(clip)
    \/ ToggleAudio
    \/ StartMicRecording
    \/ MicAcquired
    \/ MicDenied
    \/ ReleaseMicEarly
    \/ ReleaseMic
    \/ \E r \in mic.stopping, size \in {0, 1} : MicRecorderStopped(r, size)
    \/ \E i \in 1..MaxHolds : MicReaderLoadEnd(i)
    \/ \E i \in 1..MaxHolds, threw \in BOOLEAN, text \in Heard \cup {<<>>} :
          TranscribeSettled(i, threw, text)
    \/ HandleComplete
    \/ CompleteSucceeded
    \/ CompleteFailed
    \/ HostShowsDashboard
    \/ HandleCancel

Spec == Init /\ [][Next]_vars

\* ------------------------------------------------------------------------
\* parts of the session, each over the same actions
\* ------------------------------------------------------------------------
NextStart ==
    \/ HandleTopicContinue
    \/ PermissionsBack
    \/ HandleStart
    \/ PermissionGranted
    \/ \E name \in {"NotAllowedError", "NotFoundError"} : PermissionDenied(name)
    \/ EnrollmentFailed

NextEnd ==
    \/ TopicCancel
    \/ HandleComplete
    \/ CompleteSucceeded
    \/ CompleteFailed
    \/ HostShowsDashboard
    \/ HandleCancel

\* capture and its uploads, with a service that sends no audio
NextCapture ==
    \/ NextStart
    \/ NextEnd
    \/ \E started \in BOOLEAN : EnrollmentStarted(FALSE, FALSE, started)
    \/ \E size \in {0, 1} : DataAvailable(size)
    \/ \E size \in {0, 1} : RecorderStopped(size)
    \/ FlushTick
    \/ \E i \in 1..MaxUnits : ReaderLoadEnd(i)
    \/ \E outcome \in {"success", "refused", "throws"} : UploadSettled(outcome)
    \/ \E t \in Typed : TypeText(t)
    \/ SubmitForm
    \/ \E end \in BOOLEAN : SendSucceeded(FALSE, FALSE, end)
    \/ SendFailed

SpecCapture == Init /\ [][NextCapture]_vars

\* conversation, assistant audio and push-to-talk, with a recorder that
\* delivers nothing
NextTalk ==
    \/ NextStart
    \/ NextEnd
    \/ \E hasAudio, plays \in BOOLEAN : EnrollmentStarted(hasAudio, plays, FALSE)
    \/ \E t \in Typed : TypeText(t)
    \/ SubmitForm
    \/ AutoSubmit
    \/ \E hasAudio, plays, end \in BOOLEAN : SendSucceeded(hasAudio, plays, end)
    \/ SendFailed
    \/ \E clip \in playing : AudioEnded(clip)
    \/ ToggleAudio
    \/ StartMicRecording
    \/ MicAcquired
    \/ MicDenied
    \/ ReleaseMic
    \/ \E r \in mic.stopping, size \in {0, 1} : MicRecorderStopped(r, size)
    \/ \E i \in 1..MaxHolds : MicReaderLoadEnd(i)
    \/ \E i \in 1..MaxHolds, threw \in BOOLEAN, text \in Heard \cup {<<>>} :
          TranscribeSettled(i, threw, text)

SpecTalk == Init /\ [][NextTalk]_vars

\* turn exchange: typed and transcribed submissions, with a service that
\* sends no audio
NextConv ==
    \/ NextStart
    \/ NextEnd
    \/ EnrollmentStarted(FALSE, FALSE, FALSE)
    \/ \E t \in Typed : TypeText(t)
    \/ SubmitForm
    \/ AutoSubmit
    \/ \E end \in BOOLEAN : SendSucceeded(FALSE, FALSE, end)
    \/ SendFailed
    \/ StartMicRecording
    \/ MicAcquired
    \/ MicDenied
    \/ ReleaseMic
    \/ \E r \in mic.stopping, size \in {0, 1} : MicRecorderStopped(r, size)
    \/ \E i \in 1..MaxHolds : MicReaderLoadEnd(i)
    \/ \E i \in 1..MaxHolds, threw \in BOOLEAN, text \in Heard \cup {<<>>} :
          TranscribeSettled(i, threw, text)

SpecConv == Init /\ [][NextConv]_vars

\* the elapsed-time timer up to the completion threshold
NextClock ==
    \/ NextStart
    \/ NextEnd
    \/ EnrollmentStarted(FALSE, FALSE, FALSE)
    \/ Tick(ClockTicks)
    \/ \E t \in Typed : TypeText(t)
    \/ SubmitForm
    \/ \E end \in BOOLEAN : SendSucceeded(FALSE, FALSE, end)
    \/ SendFailed

SpecClock == Init /\ [][NextClock]_vars

\* the end of a session in which everything runs: recorder, assistant audio,
\* a held mic button, the elapsed timer
NextFinish ==
    \/ NextStart
    \/ NextEnd
    \/ \E hasAudio, plays, started \in BOOLEAN :
          EnrollmentStarted(hasAudio, plays, started)
    \/ \E size \in {0, 1} : DataAvailable(size)
    \/ Tick(MaxTicks)
    \/ \E t \in Typed : TypeText(t)
    \/ SubmitForm
    \/ \E hasAudio, plays, end \in BOOLEAN : SendSucceeded(hasAudio, plays, end)
    \/ \E clip \in playing : AudioEnded(clip)
    \/ StartMicRecording
    \/ MicAcquired

SpecFinish == Init /\ [][NextFinish]_vars

\* completion with retries, and cancel, of a typed conversation
NextHandoff ==
    \/ NextStart
    \/ EnrollmentStarted(FALSE, FALSE, FALSE)
    \/ \E t \in Typed : TypeText(t)
    \/ SubmitForm
    \/ \E end \in BOOLEAN : SendSucceeded(FALSE, FALSE, end)
    \/ SendFailed
    \/ TopicCancel
    \/ HandleCompleteWithin(MaxRetries)
    \/ CompleteSucceeded
    \/ CompleteFailed
    \/ HostShowsDashboard
    \/ HandleCancel

SpecHandoff == Init /\ [][NextHandoff]_vars

\* push-to-talk with one hold after another
NextHolds ==
    \/ NextStart
    \/ EnrollmentStarted(FALSE, FALSE, FALSE)
    \/ StartMicRecordingWithin(MaxPresses)
    \/ MicAcquired
    \/ MicDenied
    \/ ReleaseMic
    \/ \E r \in mic.stopping, size \in {0, 1} : MicRecorderStopped(r, size)
    \/ \E i \in 1..MaxPresses : MicReaderLoadEnd(i)
    \/ \E i \in 1..MaxPresses, threw \in BOOLEAN, text \in Heard \cup {<<>>} :
          TranscribeSettled(i, threw, text)
    \/ AutoSubmit
    \/ \E end \in BOOLEAN : SendSucceeded(FALSE, FALSE, end)
    \/ SendFailed
    \/ HandleCancel

SpecHolds == Init /\ [][NextHolds]_vars

\* the first start attempt, granted
NextBegin ==
    \/ HandleTopicContinue
    \/ HandleStart
    \/ PermissionGranted

\* assistant audio: clips of the opening and of the replies, typed and
\* spoken submissions, the audio toggle
NextAudio ==
    \/ NextBegin
    \/ \E hasAudio, plays \in BOOLEAN : EnrollmentStarted(hasAudio, plays, FALSE)
    \/ \E t \in Typed : TypeText(t)
    \/ SubmitForm
    \/ AutoSubmit
    \/ \E hasAudio, plays \in BOOLEAN : SendSucceeded(hasAudio, plays, FALSE)
    \/ SendFailed
    \/ \E clip \in playing : AudioEnded(clip)
    \/ ToggleAudio
    \/ StartMicRecording
    \/ MicAcquired
    \/ ReleaseMic
    \/ \E r \in mic.stopping : MicRecorderStopped(r, 1)
    \/ \E i \in 1..MaxHolds : MicReaderLoadEnd(i)
    \/ \E i \in 1..MaxHolds, text \in Heard : TranscribeSettled(i, FALSE, text)

SpecAudio == Init /\ [][NextAudio]_vars

\* the choice of the topic, up to the enrollment-start request
NextTopic ==
    \/ \E id \in Topics : SelectTopic(id)
    \/ ToggleCustomTopic
    \/ \E t \in CustomTyped : TypeCustomTopic(t)
    \/ NextStart
    \/ EnrollmentStarted(FALSE, FALSE, FALSE)

SpecTopic == Init /\ [][NextTopic]_vars

\* submissions, typed and spoken, while the timer runs and clips play
NextSubmit ==
    \/ NextBegin
    \/ \E hasAudio, plays \in BOOLEAN : EnrollmentStarted(hasAudio, plays, FALSE)
    \/ Tick(MaxTicks)
    \/ \E t \in Typed : TypeText(t)
    \/ SubmitForm
    \/ AutoSubmit
    \/ \E hasAudio, plays \in BOOLEAN : SendSucceeded(hasAudio, plays, FALSE)
    \/ \E clip \in playing : AudioEnded(clip)
    \/ StartMicRecording
    \/ MicAcquired
    \/ ReleaseMic
    \/ \E r \in mic.stopping : MicRecorderStopped(r, 1)
    \/ \E i \in 1..MaxHolds : MicReaderLoadEnd(i)
    \/ \E i \in 1..MaxHolds, text \in HeardOrBlank :
          TranscribeSettled(i, FALSE, text)

SpecSubmit == Init /\ [][NextSubmit]_vars

\* a hold of the mic button, let go at any moment; what the platform and the
\* services owe (a settled getUserMedia, the recorder's stop event, the
\* reader, the settled requests, the timeout) comes about, what the user
\* may do need not
NextRelease ==
    \/ NextBegin
    \/ EnrollmentStarted(FALSE, FALSE, FALSE)
    \/ StartMicRecording
    \/ ReleaseMicEarly
    \/ MicAcquired
    \/ MicDenied
    \/ ReleaseMic
    \/ \E r \in mic.stopping, size \in {0, 1} : MicRecorderStopped(r, size)
    \/ \E i \in 1..MaxHolds : MicReaderLoadEnd(i)
    \/ \E i \in 1..MaxHolds, threw \in BOOLEAN, text \in Heard \cup {<<>>} :
          TranscribeSettled(i, threw, text)
    \/ \E t \in Typed : TypeText(t)
    \/ SubmitForm
    \/ AutoSubmit
    \/ \E end \in BOOLEAN : SendSucceeded(FALSE, FALSE, end)
    \/ SendFailed

SpecRelease ==
    /\ Init /\ [][NextRelease]_vars
    /\ WF_vars(PermissionGranted)
    /\ WF_vars(EnrollmentStarted(FALSE, FALSE, FALSE))
    /\ WF_vars(MicAcquired \/ MicDenied)
    /\ WF_vars(\E r \in mic.stopping, size \in {0, 1} :
                 MicRecorderStopped(r, size))
    /\ WF_vars(\E i \in 1..MaxHolds : MicReaderLoadEnd(i))
    /\ WF_vars(\E i \in 1..MaxHolds, threw \in BOOLEAN,
                  text \in Heard \cup {<<>>} : TranscribeSettled(i, threw, text))
    /\ WF_vars(AutoSubmit)
    /\ WF_vars((\E end \in BOOLEAN : SendSucceeded(FALSE, FALSE, end))
               \/ SendFailed)

\* ------------------------------------------------------------------------
\* properties
\* ------------------------------------------------------------------------
RECURSIVE Flatten(_)
Flatten(ss) == IF ss = <<>> THEN <<>> ELSE Head(ss) \o Flatten(Tail(ss))

\* no handler is waiting at an await and no platform event is queued
Settled ==
    /\ pend.start.pc = "idle" /\ pend.sends = <<>> /\ pend.completes = <<>>
    /\ pend.uploads = <<>> /\ cap.readers = <<>> /\ ~cap.stopQueued
    /\ mic.acquiring = 0 /\ mic.stopping = {} /\ mic.pipe = <<>>
    /\ timers.autoSubmit = 0

\* the conversation screen, outside Completing
Active == mounted /\ step = "conversation" /\ ~isCompleting

\* the place of a teardown step in the order "stop recorder, flush, release
\* tracks, clear timers, clear audio/mic state" (0: not one of these)
TeardownRank(x) ==
    CASE x = "stopRecorder" -> 1
      [] x = "flush" -> 2
      [] x = "releaseTracks" -> 3
      [] x \in {"clearFlushTimer", "clearElapsedTimer"} -> 4
      [] x \in {"stopAudio", "stopMic"} -> 5
      [] OTHER -> 0

\* the teardown steps in ss are taken once each and in that order
TeardownOrdered(ss) ==
    LET ts == SelectSeq(ss, LAMBDA x : TeardownRank(x) # 0)
    IN  \A i, j \in DOMAIN ts :
          i < j => ts[i] # ts[j] /\ TeardownRank(ts[i]) <= TeardownRank(ts[j])

\* C1: once the session is over (the component is gone, the recorder has been
\* stopped and has delivered its last data, no flush and no call is in
\* flight), the chunks produced hold every captured sub-unit exactly once,
\* in the order of capture: nothing is left in the buffer.
C1_NoLossAtStop ==
    (~mounted /\ cap.recorder = "inactive" /\ Settled)
        => Flatten(obs.chunks) = obs.captured

\* C2: isRecordingMic and isSpeaking are never both true.
C2_MicExcludesSpeaking == mounted => ~(isRecordingMic /\ isSpeaking)

\* C3: after cancel, once nothing is in flight any more, no interval and no
\* timeout is scheduled and no device track is active.
C3_CancelReleasesAll ==
    (obs.hostCancel > 0 /\ Settled)
        => /\ timers.elapsed = {} /\ ~cap.flushLive /\ timers.autoSubmit = 0
           /\ cap.liveCam = {} /\ mic.live = {}

\* C4: after a failed enrollment-complete call no track of the session's
\* camera/microphone stream is active.
C4_FailedCompleteReleases ==
    (obs.completeFailures > 0 /\ pend.completes = <<>>)
        => cap.stream \notin cap.liveCam

\* C5: at most one flush is in flight: between the taking of the buffer and
\* the hand-over of its chunk to onChunkReady (a pending FileReader).
C5_OneFlushInFlight == Len(cap.readers) <= 1

\* C6: in the active conversation the Complete button is enabled exactly
\* when elapsedTime >= 60 or shouldEnd; with shouldEnd false it becomes
\* enabled by the step that takes elapsedTime from 59 to 60.
C6_Affordance ==
    /\ [](Active => (CompleteButton <=> (elapsedTime >= 60 \/ shouldEnd)))
    /\ [][(Active /\ Active' /\ ~CompleteButton /\ CompleteButton' /\ ~shouldEnd')
            => (elapsedTime = 59 /\ elapsedTime' = 60)]_vars

C6_Witness == Active /\ elapsedTime = 60 /\ ~shouldEnd /\ CompleteButton

\* C7: at most one conversation-message request is outstanding, and a
\* submission made while one is outstanding (typed or automatic) appends no
\* turn and issues no request.
C7_Serialized ==
    /\ [](Len(pend.sends) <= 1 /\ (mounted => (isTyping <=> pend.sends # <<>>)))
    /\ [][(obs'.submits # obs.submits /\ pend.sends # <<>>)
            => (messages' = messages /\ pend'.sends = pend.sends
                /\ obs'.sends = obs.sends)]_vars

\* an automatic submission of a transcribed text has been refused because a
\* request was outstanding
C7_Witness ==
    /\ mounted /\ isTyping /\ Len(pend.sends) = 1
    /\ inputText \in Heard /\ timers.autoSubmit = 0
    /\ obs.submits > obs.sends

\* C8: a submission of a non-blank text while no request is outstanding
\* appends the user turn with the (trimmed) text in that very step and marks
\* the request outstanding; when the service answers, exactly one assistant
\* turn is appended directly after that user turn and isTyping is cleared.
C8_TurnExchange ==
    /\ [][(obs'.submits # obs.submits /\ Trim(inputText) # <<>> /\ ~isTyping)
            => /\ messages' = Append(messages, [role |-> "user",
                                                content |-> Trim(inputText)])
               /\ isTyping'
               /\ Len(pend'.sends) = 1
               /\ pend'.sends[1].text = Trim(inputText)]_vars
    /\ [][(mounted /\ Len(pend'.sends) < Len(pend.sends))
            => /\ messages[Len(messages)] =
                    [role |-> "user", content |-> Head(pend.sends).text]
               /\ Len(messages') = Len(messages) + 1
               /\ SubSeq(messages', 1, Len(messages)) = messages
               /\ messages'[Len(messages')].role = "assistant"
               /\ ~isTyping']_vars

C8_Witness ==
    /\ mounted /\ ~isTyping /\ pend.sends = <<>>
    /\ Len(messages) = 3
    /\ messages[2] = [role |-> "user", content |-> <<"h", "i">>]
    /\ messages[3] = Reply

\* C9: when the conversation-message call fails, the fallback turn alone is
\* appended, isTyping is cleared, shouldEnd, the screen, the recorder and the
\* timers are as before; and a later non-blank submission is accepted.
C9_SendFailureRecovers ==
    /\ [][(mounted /\ obs'.sendFailures # obs.sendFailures)
            => /\ messages' = Append(messages, Fallback)
               /\ ~isTyping'
               /\ shouldEnd' = shouldEnd
               /\ step' = step /\ isCompleting' = isCompleting
               /\ cap' = cap /\ timers' = timers /\ timerRef' = timerRef
               /\ elapsedTime' = elapsedTime]_vars
    /\ [][(obs.sendFailures > 0 /\ obs'.submits # obs.submits
           /\ Trim(inputText) # <<>> /\ pend.sends = <<>>)
            => obs'.sends = obs.sends + 1]_vars

\* a submission accepted after a failed one
C9_Witness ==
    /\ mounted /\ step = "conversation"
    /\ obs.sendFailures > 0
    /\ Len(messages) >= 4
    /\ messages[3] = Fallback
    /\ messages[4].role = "user"

\* C10: when the first start attempt succeeds, the conversation begins with
\* the session and user ids of the response, the opening turn alone, the
\* recorder running, the flush interval and the elapsed timer scheduled
\* (unless the platform refused to start the recorder).
C10_ActiveAfterStart ==
    (mounted /\ step = "conversation" /\ obs.completes = 0
     /\ cap.error # "record")
        => /\ sessionId = NewSession /\ userId = NewUser
           /\ Len(messages) >= 1 /\ messages[1] = Opening
           /\ cap.isRecording /\ cap.flushLive
           /\ timers.elapsed # {}

\* C11: the teardown steps taken by a cancel and by the entry into
\* Completing are taken once each and in the order stop recorder, flush,
\* release tracks, clear timers, clear audio/mic state.
C11_TeardownOrder ==
    /\ [][(obs'.hostCancel # obs.hostCancel /\ step = "conversation")
            => TeardownOrdered(HandleCancelSteps)]_vars
    /\ [][obs'.completes # obs.completes
            => TeardownOrdered(HandleCompleteSteps)]_vars

\* the place of a step of handleComplete in the order "stop capture (with
\* its flush), stop playback, stop push-to-talk, freeze the timer, call
\* enrollment-complete"
CompletingRank(x) ==
    CASE x = "clearFlushTimer" -> 1
      [] x = "stopRecorder" -> 2
      [] x = "flush" -> 3
      [] x = "stopAudio" -> 4
      [] x = "stopMic" -> 5
      [] x = "clearElapsedTimer" -> 6
      [] x = "completeEnrollment" -> 7
      [] OTHER -> 0

\* C12: the step that issues enrollment-complete has, before the request and
\* in this order, stopped the capture recorder and flushed its buffer,
\* stopped playback, stopped the push-to-talk recorder and cleared the
\* elapsed timer; and once Completing has been entered elapsedTime never
\* changes again.
C12_CompletingOrder ==
    /\ [][obs'.completes # obs.completes
            => /\ \A i, j \in DOMAIN HandleCompleteSteps :
                     i < j => CompletingRank(HandleCompleteSteps[i])
                                < CompletingRank(HandleCompleteSteps[j])
               /\ cap'.recorder # "recording" /\ cap'.chunksRef = <<>>
               /\ ~cap'.flushLive
               /\ audioRef' = 0 /\ ~isSpeaking' /\ playing' = {}
               /\ ~isRecordingMic' /\ mic.micRecorderRef \notin mic'.recording
               /\ timers'.elapsed = {}
               /\ Len(pend'.completes) = Len(pend.completes) + 1]_vars
    /\ [][obs.completes > 0 => elapsedTime' = elapsedTime]_vars

\* Completing entered with a recorder that held data, after a clip was
\* played and the timer had run: the recorder's stop is queued, the flush
\* is being read, the call is pending
C12_Witness ==
    /\ mounted /\ isCompleting /\ pend.completes # <<>>
    /\ elapsedTime > 0 /\ obs.clips > 0
    /\ cap.stopQueued /\ cap.readers # <<>>
    /\ timers.elapsed = {} /\ timerRef # 0

\* C13: onComplete is called at most once, in the step in which an
\* enrollment-complete call succeeds, with the userId that enrollment-start
\* returned; a failed call hands nothing over and leaves the Complete button
\* enabled, and every enrollment-complete call, a retry included, carries
\* the session's sessionId.
C13_HandOff ==
    /\ [](/\ Len(obs.hostComplete) <= 1
          /\ \A i \in DOMAIN obs.hostComplete : obs.hostComplete[i] = NewUser
          /\ Len(pend.completes) <= 1
          /\ \A i \in DOMAIN pend.completes : pend.completes[i].sid = NewSession)
    /\ [][obs'.hostComplete # obs.hostComplete
            => /\ pend.completes # <<>> /\ pend'.completes = Tail(pend.completes)
               /\ obs'.completeFailures = obs.completeFailures]_vars
    /\ [][obs'.completeFailures # obs.completeFailures
            => /\ obs'.hostComplete = obs.hostComplete
               /\ sessionId' = sessionId
               /\ (mounted => CompleteButton')]_vars

\* a completion that failed, was tried again and then handed the user over
C13_Witness ==
    /\ obs.completeFailures = 1 /\ obs.completes = 2
    /\ obs.hostComplete = <<NewUser>>
    /\ pend.completes = <<>>

\* what the component holds on to is stopped: the recorder, the flush
\* interval, the stream of the hook, the elapsed timer, the clip and the
\* push-to-talk recorder and stream of the refs
HeldReleased ==
    /\ cap.recorder # "recording" /\ ~cap.flushLive /\ cap.chunksRef = <<>>
    /\ cap.stream \notin cap.liveCam
    /\ timerRef \notin timers.elapsed
    /\ audioRef = 0 /\ audioRef \notin playing
    /\ mic.micRecorderRef \notin mic.recording
    /\ mic.micStreamRef \notin mic.live

C15_OneRequestPerHold ==
    \A i \in DOMAIN mic.pipe : Len(mic.pipe[i].clip) = 1

\* the auto-submit timeout fires on the conversation screen while the input
\* holds a transcribed text
AutoSubmitFires ==
    /\ timers'.autoSubmit < timers.autoSubmit
    /\ mounted /\ step = "conversation" /\ inputText \in Heard

\* the step appends the user turn with the input's text and issues the
\* conversation-message request that carries it
SubmitsInput ==
    /\ messages' = Append(messages, [role |-> "user", content |-> inputText])
    /\ Len(pend'.sends) = Len(pend.sends) + 1
    /\ pend'.sends[Len(pend'.sends)].text = inputText
    /\ pend'.sends[Len(pend'.sends)].sid = sessionId
    /\ inputText' = <<>>

\* C16: whenever the timeout set by a successful transcription fires, the
\* transcribed text is submitted as a user turn and the conversation-message
\* request that carries it is issued.
C16_AutoSubmitAlways == [][AutoSubmitFires => SubmitsInput]_vars

\* C17: when a transcription settles without scheduling an auto-submit (the
\* request threw, or returned no success or no text), no turn is appended,
\* no message request is sent, the input, the screen and the error shown are
\* as before, and isTranscribing is false; the mic button then accepts a
\* hold as soon as nothing else keeps it disabled.
C17_TranscriptionFailure ==
    [][(Len(mic'.pipe) < Len(mic.pipe) /\ timers'.autoSubmit = timers.autoSubmit)
         => /\ messages' = messages /\ inputText' = inputText
            /\ pend'.sends = pend.sends /\ obs'.sends = obs.sends
            /\ cap'.error = cap.error /\ step' = step
            /\ (mounted => ~isTranscribing')
            /\ (mounted => (Busy' <=> (isTyping \/ isCompleting \/ isSpeaking)))]_vars

\* a hold accepted and recording after the one transcription request of the
\* session came to nothing
C17_Witness ==
    /\ mounted /\ obs.holds = 2 /\ obs.transcribeCalls = 1
    /\ mic.pipe = <<>> /\ mic.stopping = {} /\ timers.autoSubmit = 0
    /\ obs.sends = 0 /\ inputText = <<>> /\ messages = <<Opening>>
    /\ isRecordingMic /\ ~isTranscribing
    /\ mic.micRecorderRef = 2 /\ mic.recording = {2}

C19_ChunksUploaded ==
    [][Len(obs'.chunks) > Len(obs.chunks)
         => /\ Len(pend'.uploads) = Len(pend.uploads) + 1
            /\ pend'.uploads[Len(pend'.uploads)] = NewSession]_vars

\* C20: when getUserMedia rejects, the screen stays where it is and is not
\* the conversation, the error shown on a mounted component is one message
\* for NotAllowedError and another for any other rejection, no
\* enrollment-start call is made, there is no session, no recorder, no
\* camera stream, no flush interval and no elapsed-time interval, and
\* getUserMedia is asked again only by a press of the Start button.
C20_Denied ==
    /\ [][\A name \in {"NotAllowedError", "NotFoundError"} :
            PermissionDenied(name)
            => /\ step' = step /\ step' # "conversation"
               /\ mounted => (cap'.error = "denied") = (name = "NotAllowedError")
               /\ mounted => cap'.error \in {"denied", "device"}
               /\ mounted => ~isStarting'
               /\ obs'.enrollCalls = obs.enrollCalls
               /\ sessionId' = NoSession /\ userId' = NoUser
               /\ cap'.recorder = "null" /\ ~cap'.isRecording
               /\ cap'.liveCam = cap.liveCam /\ cap'.stream = cap.stream
               /\ ~cap'.flushLive /\ ~cap'.chunkIntervalRef
               /\ timers'.elapsed = {} /\ timerRef' = 0
               /\ pend'.start.pc = "idle"]_vars
    /\ [][(pend.start.pc = "idle" /\ pend'.start.pc # "idle")
            => /\ mounted /\ step = "permissions" /\ ~isStarting
               /\ obs'.starts = obs.starts + 1]_vars

\* the user declined, pressed Start again and declined again: the screen
\* shows the denial and nothing was started
C20_Witness ==
    /\ mounted /\ step = "permissions" /\ ~isStarting
    /\ cap.error = "denied" /\ obs.starts = 2 /\ pend.start.pc = "idle"
    /\ obs.enrollCalls = 0 /\ sessionId = NoSession
    /\ cap.recorder = "null" /\ cap.liveCam = {} /\ timers.elapsed = {}

\* C21: when enrollment-start fails, an alert is shown, the screen stays
\* where it is and is not the conversation, isStarting is cleared so that
\* the Start button is enabled again, and there is no sessionId, no turn in
\* the transcript, no recorder, no flush interval and no elapsed timer.
C21_StartFailure ==
    [][obs'.startAlerts # obs.startAlerts
         => /\ obs'.startAlerts = obs.startAlerts + 1
            /\ step' = step /\ step' # "conversation"
            /\ mounted => ~isStarting'
            /\ pend'.start.pc = "idle"
            /\ sessionId' = NoSession /\ userId' = NoUser
            /\ messages' = <<>>
            /\ cap'.recorder = "null" /\ ~cap'.isRecording
            /\ ~cap'.flushLive /\ ~cap'.chunkIntervalRef
            /\ timers'.elapsed = {} /\ timerRef' = 0]_vars

\* enrollment-start failed, and Start was pressed again: the second request
\* for the devices is pending
C21_Witness ==
    /\ mounted /\ step = "permissions" /\ obs.startAlerts = 1
    /\ obs.starts = 2 /\ isStarting /\ pend.start.pc = "perm"
    /\ sessionId = NoSession /\ messages = <<>>

\* C22: elapsedTime is 0 until the conversation begins; a step that changes
\* it adds exactly 1, is taken while an elapsed-time interval is scheduled
\* and changes nothing else (so no other event changes, lowers or resets
\* it); and at most one elapsed-time interval is scheduled at any instant.
C22_ElapsedTime ==
    /\ [](step # "conversation" => elapsedTime = 0)
    /\ [](Cardinality(timers.elapsed) <= 1)
    /\ [][elapsedTime' # elapsedTime
            => /\ elapsedTime' = elapsedTime + 1
               /\ timers.elapsed # {}
               /\ UNCHANGED <<mounted, topicVars, flowVars, convVars,
                              audioVars, audioEnabled, timerRef, timers,
                              chunksProcessed, micVars, cap, pend, obs>>]_vars

\* the timer has run, a turn was exchanged meanwhile, and the timer ran on
C22_Witness ==
    /\ mounted /\ step = "conversation" /\ elapsedTime = 3
    /\ Cardinality(timers.elapsed) = 1 /\ timerRef \in timers.elapsed
    /\ Len(messages) = 3 /\ pend.sends = <<>>

\* C23: at most one clip is playing at any instant; a clip starts playing
\* only when no other is, the clip that was playing having been stopped by
\* the submission whose reply brings the new one; and on a mounted
\* component isSpeaking is true exactly while a clip is playing.
C23_OneClip ==
    /\ [](Cardinality(playing) <= 1)
    /\ [](mounted => (isSpeaking <=> playing # {}))
    /\ [][playing' \ playing # {}
            => /\ playing = {}
               /\ playing' = {audioRef'}]_vars
    /\ [][obs'.sends # obs.sends => (playing' = {} /\ audioRef' = 0)]_vars

\* the reply to a second submission is playing, after an earlier clip
C23_Witness ==
    /\ mounted /\ isSpeaking /\ obs.sends = 2 /\ pend.sends = <<>>
    /\ obs.clips >= 2 /\ playing = {obs.clips} /\ audioRef = obs.clips

\* C24: in the step in which isRecordingMic becomes true, no clip is being
\* spoken, no transcription is under way and no conversation-message
\* request is outstanding.
C24_CaptureWhenFree ==
    [][(~isRecordingMic /\ isRecordingMic')
         => /\ ~isSpeaking /\ ~isTranscribing
            /\ ~isTyping /\ pend.sends = <<>>]_vars

\* C25: on the conversation screen outside Completing, after a failed
\* completion attempt as well, the elapsed-time interval is scheduled, the
\* recorder is recording (its 1 s timeslice) and the flush interval is
\* scheduled.
C25_TimersWhileActive ==
    (Active /\ obs.completeFailures > 0)
        => /\ timers.elapsed # {}
           /\ cap.recorder = "recording" /\ cap.flushLive

\* C26: isCompleting becomes true only in a step of handleComplete, which
\* is taken on the conversation screen, outside Completing, with shouldEnd
\* true or elapsedTime >= 60; and the step in which shouldEnd becomes true
\* leaves the screen, isCompleting, the recorder, its interval and stream,
\* the elapsed timer and push-to-talk as they are and issues no
\* enrollment-complete call.
C26_CompletingByUser ==
    /\ [][(~isCompleting /\ isCompleting')
            => obs'.completes = obs.completes + 1]_vars
    /\ [][obs'.completes # obs.completes
            => /\ mounted /\ step = "conversation" /\ ~isCompleting
               /\ (shouldEnd \/ elapsedTime >= CompletionThreshold)]_vars
    /\ [][(~shouldEnd /\ shouldEnd')
            => /\ mounted' = mounted /\ step' = step
               /\ isCompleting' = isCompleting
               /\ sessionId' = sessionId
               /\ cap' = cap /\ mic' = mic
               /\ timers' = timers /\ timerRef' = timerRef
               /\ pend'.completes = pend.completes
               /\ obs'.completes = obs.completes
               /\ obs'.hostComplete = obs.hostComplete]_vars

\* shouldEnd has arrived and the session goes on: the recorder records,
\* the elapsed timer is scheduled, no completion was asked for
C26_Witness ==
    /\ Active /\ shouldEnd /\ obs.completes = 0 /\ pend.completes = <<>>
    /\ cap.recorder = "recording" /\ cap.flushLive
    /\ timerRef \in timers.elapsed /\ elapsedTime = 1
    /\ Len(messages) = 3

\* C27: the topic that handleStart passes to enrollment-start is, of the
\* choice on the screen when Start is pressed, the trimmed custom text when
\* custom mode is on and the text is not blank, otherwise the label of the
\* selected topic, otherwise "General Chat"; the request carries it as its
\* topic field; a Continue with nothing chosen gives "General Chat"; and
\* Continue does nothing in custom mode with a blank text.
C27_Topic ==
    /\ [][obs'.starts # obs.starts
            => pend'.start.topic =
                 IF useCustomTopic /\ Trim(customTopic) # <<>>
                 THEN Trim(customTopic)
                 ELSE IF selectedTopic \in Topics THEN Label(selectedTopic)
                 ELSE <<"General Chat">>]_vars
    /\ [][obs'.enrollCalls # obs.enrollCalls
            => /\ obs'.enrollBody.topic = pend.start.topic
               /\ pend'.start.topic = pend.start.topic]_vars
    /\ [][(step = "topic" /\ step' = "permissions")
            => /\ ~(useCustomTopic /\ Trim(customTopic) = <<>>)
               /\ (selectedTopic = NoTopic /\ ~useCustomTopic)
                    => /\ ~useCustomTopic'
                       /\ selectedTopic' \in Topics
                            => Label(selectedTopic') = <<"General Chat">>]_vars

\* a custom topic typed with blanks around it has been sent, trimmed
C27_Witness ==
    /\ pend.start.pc = "enroll" /\ useCustomTopic
    /\ customTopic = <<" ", "a", "i", " ">>
    /\ obs.enrollBody = StartEnrollmentBody(<<"a", "i">>)

\* an upload settles in this step, with or without acceptance
UploadAccepted ==
    /\ Len(pend'.uploads) < Len(pend.uploads)
    /\ obs'.uploadFailures = obs.uploadFailures

UploadNotAccepted == obs'.uploadFailures # obs.uploadFailures

\* C28: chunksProcessed is 0 while no chunk was produced and never exceeds
\* the number of chunks produced; a step changes it only by adding 1, and
\* only when an upload is accepted; on a mounted component every accepted
\* upload adds 1, and an upload that is refused or throws adds nothing.
C28_ChunkCounter ==
    /\ [](chunksProcessed >= 0 /\ chunksProcessed <= Len(obs.chunks))
    /\ [][chunksProcessed' # chunksProcessed
            => (chunksProcessed' = chunksProcessed + 1 /\ UploadAccepted)]_vars
    /\ [][(mounted /\ UploadAccepted)
            => chunksProcessed' = chunksProcessed + 1]_vars
    /\ [][UploadNotAccepted => chunksProcessed' = chunksProcessed]_vars

\* of two chunks uploaded, one was accepted and one was not
C28_Witness ==
    /\ mounted /\ chunksProcessed = 1 /\ obs.uploadFailures = 1
    /\ Len(obs.chunks) = 2 /\ pend.uploads = <<>> /\ cap.readers = <<>>

\* C29: once the opening turn is there, a step leaves the transcript as it
\* is or appends one turn to it: a user turn in the step that accepts a
\* submission, an assistant turn in the step in which the request of the
\* oldest outstanding submission settles; and a step of the recorder, of a
\* flush, of a FileReader or of an upload leaves it as it is.
C29_AppendOnly ==
    /\ [][(messages # <<>> /\ messages' # messages)
            => /\ Len(messages') = Len(messages) + 1
               /\ SubSeq(messages', 1, Len(messages)) = messages
               /\ \/ /\ obs'.sends = obs.sends + 1
                     /\ messages'[Len(messages')].role = "user"
                  \/ /\ pend.sends # <<>> /\ pend'.sends = Tail(pend.sends)
                     /\ messages'[Len(messages')].role = "assistant"]_vars
    /\ [][(messages # <<>>
           /\ (obs'.captured # obs.captured \/ obs'.chunks # obs.chunks
               \/ cap'.readers # cap.readers \/ pend'.uploads # pend.uploads
               \/ chunksProcessed' # chunksProcessed))
            => messages' = messages]_vars

\* a turn was exchanged while the recorder ran and a chunk was flushed
\* and uploaded
C29_Witness ==
    /\ mounted /\ Len(messages) = 3 /\ messages[1] = Opening
    /\ messages[2].role = "user" /\ messages[3].role = "assistant"
    /\ Len(obs.chunks) >= 1 /\ Len(obs.captured) = 2
    /\ cap.recorder = "recording"

\* C30: the step that accepts a submission leaves no clip playing and
\* issues one conversation-message request, with the sessionId, the trimmed
\* text of the input (not blank) and the elapsedTime of that moment, and
\* appends the user turn; a submission of a blank text, or without a
\* sessionId, appends no turn and issues no request.
C30_Submit ==
    /\ [][obs'.sends # obs.sends
            => /\ playing' = {} /\ audioRef' = 0 /\ ~isSpeaking'
               /\ sessionId = NewSession /\ Trim(inputText) # <<>>
               /\ Len(pend'.sends) = Len(pend.sends) + 1
               /\ SubSeq(pend'.sends, 1, Len(pend.sends)) = pend.sends
               /\ LET req == pend'.sends[Len(pend'.sends)]
                  IN  /\ req.sid = sessionId
                      /\ req.text = Trim(inputText)
                      /\ req.elapsed = elapsedTime
               /\ messages' = Append(messages,
                                     [role |-> "user",
                                      content |-> Trim(inputText)])]_vars
    /\ [][(obs'.submits # obs.submits
           /\ (Trim(inputText) = <<>> \/ sessionId = NoSession))
            => /\ messages' = messages /\ pend'.sends = pend.sends
               /\ obs'.sends = obs.sends /\ inputText' = inputText]_vars

\* an auto-submission found the input blank and was dropped, and a typed
\* text was sent, trimmed, one second into the session
C30_Witness ==
    /\ mounted /\ obs.transcribeCalls = 1 /\ timers.autoSubmit = 0
    /\ obs.submits = 2 /\ obs.sends = 1
    /\ Len(pend.sends) = 1
    /\ pend.sends[1].sid = NewSession
    /\ pend.sends[1].text = <<"h", "i">>
    /\ pend.sends[1].elapsed = 1
    /\ Len(messages) = 2 /\ inputText = <<>>

\* C31: stopRecording is idempotent.  In every state, a call of it leaves
\* the flush interval cleared, the recorder stopped and the buffer empty,
\* hands over at most one chunk (one exactly when the buffer held data), and
\* a second call on the state the first has left changes nothing; so the
\* step of a cancel, where stopStream calls it again, hands over what one
\* call hands over.
C31_StopIdempotent ==
    /\ [](\A m \in BOOLEAN :
            LET c1 == StopRecording(cap, sessionId, m)
            IN  /\ ~c1.flushLive /\ ~c1.chunkIntervalRef
                /\ c1.recorder # "recording" /\ c1.chunksRef = <<>>
                /\ Len(c1.readers) =
                     Len(cap.readers) + (IF cap.chunksRef # <<>> THEN 1 ELSE 0)
                /\ StopRecording(c1, sessionId, m) = c1)
    /\ [][(obs'.hostCancel # obs.hostCancel /\ step = "conversation")
            => /\ Len(cap'.readers) =
                    Len(cap.readers) + (IF cap.chunksRef # <<>> THEN 1 ELSE 0)
               /\ (cap.chunksRef # <<>>
                     => cap'.readers[Len(cap'.readers)].units = cap.chunksRef)
               /\ cap'.chunksRef = <<>> /\ ~cap'.flushLive
               /\ ~cap'.chunkIntervalRef /\ cap'.recorder # "recording"]_vars

\* a cancel of a recording session whose buffer held two sub-units: one
\* chunk with both is being read, the recorder's stop is queued
C31_Witness ==
    /\ obs.hostCancel = 1 /\ ~mounted /\ step = "conversation"
    /\ cap.stopQueued /\ ~cap.flushLive /\ cap.chunksRef = <<>>
    /\ Len(cap.readers) = 1 /\ Len(cap.readers[1].units) = 2
    /\ obs.chunks = <<>>

\* the sub-units held anywhere: in the chunks handed over, in the chunks
\* being encoded, in the buffer
UnitsHeld ==
    Flatten(obs.chunks)
    \o Flatten([i \in DOMAIN cap.readers |-> cap.readers[i].units])
    \o cap.chunksRef

\* C32: a flush takes the buffer and leaves an empty one in one step, in
\* which nothing is captured; no captured sub-unit is in two chunks, or in
\* a chunk and in the buffer; a chunk that was taken is handed over as it
\* was taken; and while a chunk is being encoded or uploaded the recorder's
\* data still goes to the buffer.
C32_SwapOnFlush ==
    /\ [](\A u \in 1..Len(obs.captured) :
            Cardinality({i \in DOMAIN UnitsHeld : UnitsHeld[i] = u}) <= 1)
    /\ [][Len(cap'.readers) > Len(cap.readers)
            => /\ cap.chunksRef # <<>> /\ cap'.chunksRef = <<>>
               /\ cap'.readers[Len(cap'.readers)].units = cap.chunksRef
               /\ SubSeq(cap'.readers, 1, Len(cap.readers)) = cap.readers
               /\ obs'.captured = obs.captured]_vars
    /\ [][\A i \in DOMAIN cap'.readers :
            \/ \E j \in DOMAIN cap.readers : cap.readers[j] = cap'.readers[i]
            \/ i > Len(cap.readers)]_vars
    /\ [][Len(obs'.chunks) > Len(obs.chunks)
            => \E i \in DOMAIN cap.readers :
                 obs'.chunks = Append(obs.chunks, cap.readers[i].units)]_vars
    /\ [][obs'.captured # obs.captured
            => /\ cap'.chunksRef = Append(cap.chunksRef, Len(obs.captured) + 1)
               /\ cap'.readers = cap.readers
               /\ pend'.uploads = pend.uploads]_vars
    /\ []((cap.recorder = "recording" /\ Len(obs.captured) < MaxUnits
           /\ (cap.readers # <<>> \/ pend.uploads # <<>>))
            => ENABLED DataAvailable(1))

\* a sub-unit was captured while the chunk of the first was being encoded
C32_Witness ==
    /\ cap.recorder = "recording" /\ cap.flushLive
    /\ Len(cap.readers) = 1 /\ cap.readers[1].units = <<1>>
    /\ cap.chunksRef = <<2>> /\ obs.chunks = <<>>

\* C33: every enrollment.chunk request of the session, the one of the final
\* flush included, is issued before the enrollment-complete request: no
\* upload request is issued once an enrollment-complete request has been.
C33_ChunksBeforeComplete ==
    [][Len(pend'.uploads) > Len(pend.uploads) => obs.completes = 0]_vars

\* C34: once Completing has been entered, or the conversation has been
\* cancelled, no clip starts playing and isSpeaking does not become true,
\* whatever response arrives.
C34_SilentAfterEnd ==
    [][(isCompleting \/ (obs.hostCancel > 0 /\ step = "conversation"))
         => (playing' \subseteq playing /\ (isSpeaking' => isSpeaking))]_vars

\* C35: a step taken while the screen is not the permission request, or
\* after the component is gone, schedules no elapsed-time interval, starts
\* no recorder and does not show the conversation: the conversation is
\* entered from the permission request only.
C35_ActiveFromPermissions ==
    [][(step # "conversation" /\ (step # "permissions" \/ ~mounted))
         => /\ timers'.elapsed \subseteq timers.elapsed
            /\ cap'.recorder = "recording" => cap.recorder = "recording"
            /\ ~cap'.flushLive
            /\ step' # "conversation"]_vars

\* C36: when the mic button is let go while the microphone is still being
\* acquired, then, with nothing more done by the user, the acquisition
\* settles into a state in which isRecordingMic is false and no push-to-talk
\* stream is live.
C36_CaptureEndsWithHold ==
    (obs.holds > 0 /\ obs.earlyRelease = obs.holds)
        ~> (mic.acquiring = 0 /\ ~isRecordingMic /\ mic.live = {})

\* C37: at any instant at most one push-to-talk recorder is recording and
\* at most one push-to-talk stream is live, and a live stream is the one
\* micStreamRef refers to.
C37_OneMicStream ==
    /\ Cardinality(mic.recording) <= 1
    /\ Cardinality(mic.live) <= 1
    /\ \A st \in mic.live : st = mic.micStreamRef

\* C38: while the AI voice is disabled no clip is playing and isSpeaking is
\* false, whenever the request of the response was submitted.
C38_SilentWhileDisabled ==
    (mounted /\ ~audioEnabled) => (~isSpeaking /\ playing = {})

\* C39: while the component shows a session, the transcript begins with an
\* assistant turn, its turns are assistant and user in alternation, and its
\* last turn is a user turn exactly when a conversation-message request is
\* outstanding.
C39_Alternation ==
    (mounted /\ sessionId # NoSession)
        => /\ messages # <<>>
           /\ \A i \in DOMAIN messages :
                messages[i].role = IF i % 2 = 1 THEN "assistant" ELSE "user"
           /\ (messages[Len(messages)].role = "user") <=> (pend.sends # <<>>)

\* a spoken turn was submitted and its request failed: opening, user turn,
\* fallback turn, nothing outstanding
C39_Witness ==
    /\ mounted /\ sessionId = NewSession /\ pend.sends = <<>>
    /\ obs.transcribeCalls = 1 /\ obs.sendFailures = 1
    /\ messages = <<Opening, [role |-> "user", content |-> <<"y", "o">>],
                    Fallback>>

\* the condition under which the Complete button is rendered
Unlocked == shouldEnd \/ elapsedTime >= CompletionThreshold

\* C40: shouldEnd, once true, stays true, and so does the condition that
\* unlocks the Complete button; on the conversation screen outside
\* Completing the button is then enabled, in particular in the state a
\* failed send and a failed completion attempt leave.
C40_AffordanceMonotone ==
    /\ [][shouldEnd => shouldEnd']_vars
    /\ [][Unlocked => Unlocked']_vars
    /\ []((Active /\ Unlocked) => CompleteButton)
    /\ [][(Unlocked /\ obs'.sendFailures # obs.sendFailures)
            => /\ shouldEnd' = shouldEnd /\ Unlocked'
               /\ CompleteButton => CompleteButton']_vars
    /\ [][(mounted /\ obs'.completeFailures # obs.completeFailures)
            => (Unlocked /\ CompleteButton')]_vars

\* the service ended the conversation before the threshold, the completion
\* attempt failed, and the button is enabled again
C40_Witness ==
    /\ Active /\ shouldEnd /\ elapsedTime < CompletionThreshold
    /\ obs.completeFailures = 1 /\ pend.completes = <<>>
    /\ CompleteButton

====
